---- MODULE Spec2Model ----
(***************************************************************************)
(* A model of the alexiAId client: the persisted application store         *)
(* (src/lib/ttai/client.ts, "Application Store"), the iframe event         *)
(* listener and payload normalizer of the same file, and the page          *)
(* handlers that drive the store (test, coach, results, settings); and of  *)
(* the server's admin routes (src/app/api/sessions/route.ts).              *)
(*                                                                         *)
(* JavaScript values are encoded as strings so that any two of them can    *)
(* be compared: Undef is the value undefined, Null is null, numbers are    *)
(* numerals ("42").  An object is a function whose DOMAIN is its set of    *)
(* own keys; a key that is present with the value undefined is kept        *)
(* apart from a key that is absent, as the spread operator and             *)
(* JSON.stringify tell them apart.                                         *)
(***************************************************************************)
EXTENDS Integers, Sequences, FiniteSets, TLC

VARIABLES store, localStorage, clock, last, ui, inbox, calls, server

vars == <<server, store, localStorage, clock, last, ui, inbox, calls>>

---------------------------------------------------------------------------
(* Bounds of the model. *)

\* The store holds at most this many items in total: session references,
\* session details, journal entries, activity logs and scalar fields that
\* are set.
MaxItems == 3

\* The clock readings 1..MaxTime that Date.now() / new Date() may return;
\* the clock never goes back and stays at MaxTime once there.
MaxTime == 2

---------------------------------------------------------------------------
(* Encoded JavaScript values. *)

Undef == "undefined"

Null == "null"

\* The values JavaScript treats as false in `a || b` and `!a`.
Falsy == {Undef, Null, "", "0"}

Truthy(v) == v \notin Falsy

\* a || b on encoded scalars.
Or(a, b) == IF Truthy(a) THEN a ELSE b

\* obj.key: the value of an own key, undefined when the key is absent.
Get(obj, key) == IF key \in DOMAIN obj THEN obj[key] ELSE Undef

\* {...a, ...b}: all own keys of both, b's value where both have the key.
Spread(a, b) ==
  [k \in (DOMAIN a) \cup (DOMAIN b) |-> IF k \in DOMAIN b THEN b[k] ELSE a[k]]

\* The object with no own key.
EmptyObject == [k \in {} |-> Undef]

\* const { [key]: _, ...rest } = obj
Omit(obj, key) == [k \in (DOMAIN obj) \ {key} |-> obj[k]]

\* array.includes(x)
Includes(seq, x) == \E i \in 1..Len(seq) : seq[i] = x

Times == 1..MaxTime

\* new Date(t).toISOString(), on the clock readings of the model.
toISOString(t) == IF t = 1 THEN "T1" ELSE IF t = 2 THEN "T2" ELSE "T3"

---------------------------------------------------------------------------
(* Constants of the program. *)

TOUGHTONGUE_ORIGIN == "https://app.toughtongueai.com"

PERSONALITY_TEST == "69577496bd7c000fa3f4fc2a"

PERSONALITY_COACH == "6958f1a646e4227d62efbd61"

---------------------------------------------------------------------------
(* The store: AppState and its mutators.  Each mutator is the function the *)
(* code hands to zustand's set(): from the current state to the next.      *)

initialState ==
  [ user                      |-> Null,
    adminToken                |-> Null,
    userPersonalityType       |-> Null,
    userPersonalityAssessment |-> Null,
    userPersonalitySessionId  |-> Null,
    assessmentSessions        |-> <<>>,
    coachSessions             |-> <<>>,
    sessionDetails            |-> EmptyObject,
    journalEntries            |-> <<>>,
    activityLogs              |-> <<>> ]

setUser(state, user) == [state EXCEPT !.user = user]

setAdminToken(state, token) == [state EXCEPT !.adminToken = token]

setUserPersonalityAssessment(state, type, assessment, sessionId) ==
  [state EXCEPT !.userPersonalityType = type,
                !.userPersonalityAssessment = assessment,
                !.userPersonalitySessionId = sessionId]

\* The detail record both add mutators write: the three fixed keys, then
\* ...details on top of them.
NewSessionDetail(sessionId, scenarioType, details) ==
  Spread([id |-> sessionId,
          scenarioId |-> Or(Get(details, "scenarioId"), ""),
          scenarioType |-> scenarioType],
         details)

\* addAssessmentSession without the includes() test: it always appends.
addAssessmentSessionAlways(state, sessionId, details) ==
  [state EXCEPT
     !.assessmentSessions = Append(state.assessmentSessions, sessionId),
     !.sessionDetails =
        Spread(state.sessionDetails,
               [k \in {sessionId} |-> NewSessionDetail(sessionId, "assessment", details)])]

addAssessmentSession(state, sessionId, details) ==
  [state EXCEPT
     !.assessmentSessions =
        IF Includes(state.assessmentSessions, sessionId)
        THEN state.assessmentSessions
        ELSE Append(state.assessmentSessions, sessionId),
     !.sessionDetails =
        Spread(state.sessionDetails,
               [k \in {sessionId} |-> NewSessionDetail(sessionId, "assessment", details)])]

removeAssessmentSession(state, sessionId) ==
  [state EXCEPT
     !.assessmentSessions = SelectSeq(state.assessmentSessions, LAMBDA id : id # sessionId),
     !.sessionDetails = Omit(state.sessionDetails, sessionId)]

addCoachSession(state, sessionId, details) ==
  [state EXCEPT
     !.coachSessions =
        IF Includes(state.coachSessions, sessionId)
        THEN state.coachSessions
        ELSE Append(state.coachSessions, sessionId),
     !.sessionDetails =
        Spread(state.sessionDetails,
               [k \in {sessionId} |-> NewSessionDetail(sessionId, "coach", details)])]

removeCoachSession(state, sessionId) ==
  [state EXCEPT
     !.coachSessions = SelectSeq(state.coachSessions, LAMBDA id : id # sessionId),
     !.sessionDetails = Omit(state.sessionDetails, sessionId)]

\* updateSessionDetails that writes the partial record in place of the
\* detail instead of merging it.
updateSessionDetailsReplace(state, sessionId, details) ==
  [state EXCEPT
     !.sessionDetails =
        Spread(state.sessionDetails, [k \in {sessionId} |-> details])]

\* An update that leaves the store alone when there is no detail for the
\* id.
updateSessionDetailsKnown(state, sessionId, details) ==
  IF sessionId \notin DOMAIN state.sessionDetails THEN state
  ELSE [state EXCEPT
          !.sessionDetails =
             Spread(state.sessionDetails,
                    [k \in {sessionId} |->
                       Spread(state.sessionDetails[sessionId], details)])]

\* ...state.sessionDetails[sessionId] spreads nothing when there is no
\* detail for the id.
updateSessionDetails(state, sessionId, details) ==
  [state EXCEPT
     !.sessionDetails =
        Spread(state.sessionDetails,
               [k \in {sessionId} |->
                  Spread(IF sessionId \in DOMAIN state.sessionDetails
                         THEN state.sessionDetails[sessionId]
                         ELSE EmptyObject,
                         details)])]

\* A journal entry is {...entry, id, createdAt, updatedAt}; the form's
\* content fields are carried by `situation`.
addJournalEntry(state, entry, id, now) ==
  [state EXCEPT
     !.journalEntries =
        Append(state.journalEntries,
               Spread(entry, [id |-> id,
                              createdAt |-> toISOString(now),
                              updatedAt |-> toISOString(now)]))]

\* An update that merges the changes and leaves updatedAt as it was.
updateJournalEntryStale(state, id, updates, now) ==
  [state EXCEPT
     !.journalEntries =
        [i \in 1..Len(state.journalEntries) |->
           IF state.journalEntries[i].id = id
           THEN Spread(state.journalEntries[i], updates)
           ELSE state.journalEntries[i]]]

updateJournalEntry(state, id, updates, now) ==
  [state EXCEPT
     !.journalEntries =
        [i \in 1..Len(state.journalEntries) |->
           IF state.journalEntries[i].id = id
           THEN Spread(Spread(state.journalEntries[i], updates),
                       [updatedAt |-> toISOString(now)])
           ELSE state.journalEntries[i]]]

deleteJournalEntry(state, id) ==
  [state EXCEPT
     !.journalEntries = SelectSeq(state.journalEntries, LAMBDA entry : entry.id # id)]

\* logActivity that keeps the new entry alone, as a log that holds only
\* the latest activity would.
logActivityLatest(state, activity, id, now) ==
  [state EXCEPT
     !.activityLogs =
        << Spread(activity, [id |-> id, timestamp |-> toISOString(now)]) >>]

logActivity(state, activity, id, now) ==
  [state EXCEPT
     !.activityLogs =
        Append(state.activityLogs,
               Spread(activity, [id |-> id, timestamp |-> toISOString(now)]))]

\* new Date(text).getTime() on the texts toISOString gives: the clock
\* reading.
getTime(text) == IF text = "T1" THEN 1 ELSE IF text = "T2" THEN 2 ELSE 3

\* logs.sort((a, b) => time(b) - time(a)): newest first, entries of the
\* same time in the order they had (the sort is stable).
SortNewestFirst(logs) ==
  SelectSeq(logs, LAMBDA log : getTime(log.timestamp) = 3)
    \o SelectSeq(logs, LAMBDA log : getTime(log.timestamp) = 2)
    \o SelectSeq(logs, LAMBDA log : getTime(log.timestamp) = 1)

\* The filters of getActivityLogs leave out a log; a filter that is
\* undefined (or empty) is not applied.
Filtered(logs, filters) ==
  SelectSeq(logs, LAMBDA log :
    /\ Truthy(Get(filters, "userId")) => log.userId = filters.userId
    /\ Truthy(Get(filters, "action")) => log.action = filters.action
    /\ (Truthy(Get(filters, "startDate")) /\ Truthy(Get(filters, "endDate")))
         => /\ getTime(log.timestamp) >= getTime(filters.startDate)
            /\ getTime(log.timestamp) <= getTime(filters.endDate))

\* Whether any filter is applied; each one that is makes a new array.
IsFiltered(filters) ==
  \/ Truthy(Get(filters, "userId"))
  \/ Truthy(Get(filters, "action"))
  \/ Truthy(Get(filters, "startDate")) /\ Truthy(Get(filters, "endDate"))

\* getActivityLogs returns the logs sorted; Array.sort sorts in place, so
\* with no filter applied it is the stored array itself that is sorted.
getActivityLogs(state, filters) ==
  [ state |-> IF IsFiltered(filters) THEN state
              ELSE [state EXCEPT !.activityLogs = SortNewestFirst(state.activityLogs)],
    result |-> SortNewestFirst(Filtered(state.activityLogs, filters)) ]

clearActivityLogs(state) == [state EXCEPT !.activityLogs = <<>>]

\* JSON.stringify of an object leaves out the keys whose value is undefined.
JSONObject(obj) == [k \in {x \in DOMAIN obj : obj[x] # Undef} |-> obj[k]]

\* JSON.stringify of an array of objects.
JSONArray(seq) == [i \in 1..Len(seq) |-> JSONObject(seq[i])]

\* What JSON.parse(JSON.stringify(state)) yields: the mutators are
\* functions and are left out, and so is every key of a session detail
\* whose value is undefined.
JSONState(state) ==
  [state EXCEPT
     !.sessionDetails = [id \in DOMAIN @ |-> JSONObject(@[id])],
     !.journalEntries = JSONArray(@),
     !.activityLogs = JSONArray(@)]

\* The name the store is persisted under.
PERSIST_NAME == "ttai-app-store"

\* A persist whose partialize option leaves the activity logs out of
\* the record.
setItemPartial(storage, state) ==
  Spread(storage,
         [k \in {PERSIST_NAME} |->
            [state |-> Omit(JSONState(state), "activityLogs"), version |-> "0"]])

\* persist with only `name` set: after every set() the whole state is
\* written under the name, as { state, version }.
setItem(storage, state) ==
  Spread(storage,
         [k \in {PERSIST_NAME} |-> [state |-> JSONState(state), version |-> "0"]])

\* The state the store is created with: the record under the name spread
\* over initialState, initialState alone when there is no record.
rehydrate(storage) ==
  IF PERSIST_NAME \in DOMAIN storage
  THEN Spread(initialState, storage[PERSIST_NAME].state)
  ELSE initialState

\* A document (the text handed to importData) is modelled by what
\* JSON.parse makes of it:
\*   kind     "text" (not JSON: parse throws), "null", "number", "object";
\*   version  the top-level version, Undef when the key is absent;
\*   dataKind "absent", "null", "string" or "object": the top-level data;
\*   data     the keys of data, when it is an object.
\* exportData returns the document that parsing its text yields.
exportData(state, now) ==
  [ kind       |-> "object",
    version    |-> "1.0",
    exportDate |-> toISOString(now),
    dataKind   |-> "object",
    data       |->
      [ user                      |-> state.user,
        userPersonalityType       |-> state.userPersonalityType,
        userPersonalityAssessment |-> state.userPersonalityAssessment,
        userPersonalitySessionId  |-> state.userPersonalitySessionId,
        assessmentSessions        |-> state.assessmentSessions,
        coachSessions             |-> state.coachSessions,
        sessionDetails            |->
          [id \in DOMAIN state.sessionDetails |-> JSONObject(state.sessionDetails[id])],
        journalEntries            |-> state.journalEntries ] ]

\* data.key || fallback, for the keys that hold an array or an object.
OrDefault(data, key, fallback) == IF key \in DOMAIN data THEN data[key] ELSE fallback

\* The state importData sets from a document it accepts.
Imported(state, doc) ==
  [state EXCEPT
     !.user = Or(Get(doc.data, "user"), Null),
     !.userPersonalityType = Or(Get(doc.data, "userPersonalityType"), Null),
     !.userPersonalityAssessment =
        Or(Get(doc.data, "userPersonalityAssessment"), Null),
     !.userPersonalitySessionId =
        Or(Get(doc.data, "userPersonalitySessionId"), Null),
     !.assessmentSessions = OrDefault(doc.data, "assessmentSessions", <<>>),
     !.coachSessions = OrDefault(doc.data, "coachSessions", <<>>),
     !.sessionDetails = OrDefault(doc.data, "sessionDetails", EmptyObject),
     !.journalEntries = OrDefault(doc.data, "journalEntries", <<>>)]

\* The outcome of a call: the state it leaves, the boolean it returns and
\* whether it throws.
Outcome(state, ok, threw) == [state |-> state, ok |-> ok, threw |-> threw]

\* The try block of importData: JSON.parse throws on text that is not
\* JSON, and reading .data of null throws.
importDataTry(state, doc) ==
  IF doc.kind \in {"text", "null"} THEN Outcome(state, FALSE, TRUE)
  ELSE IF doc.kind # "object" \/ doc.dataKind \in {"absent", "null"}
          \/ ~Truthy(doc.version)
  THEN Outcome(state, FALSE, FALSE)
  ELSE Outcome(Imported(state, doc), TRUE, FALSE)

\* importData that tests data alone and not version.
importDataUnchecked(state, doc) ==
  IF doc.kind \in {"text", "null"} THEN Outcome(state, FALSE, FALSE)
  ELSE IF doc.kind # "object" \/ doc.dataKind \in {"absent", "null"}
  THEN Outcome(state, FALSE, FALSE)
  ELSE Outcome(Imported(state, doc), TRUE, FALSE)

\* importData: the catch block returns false for whatever the try block
\* throws.
importData(state, doc) ==
  IF importDataTry(state, doc).threw THEN Outcome(state, FALSE, FALSE)
  ELSE importDataTry(state, doc)

\* clearUserData that empties the journal, whoever wrote the entries.
clearUserDataOfAll(state, userId) == [state EXCEPT !.journalEntries = <<>>]

clearUserData(state, userId) ==
  [state EXCEPT
     !.journalEntries = SelectSeq(state.journalEntries, LAMBDA entry : entry.userId # userId)]

\* set((state) => ({...state, ...newState}))
setRawState(state, newState) == Spread(state, newState)

\* clearAll that leaves the admin token and the activity logs in place.
clearAllButLogs(state) ==
  [initialState EXCEPT !.adminToken = state.adminToken,
                       !.activityLogs = state.activityLogs]

\* set(initialState): zustand merges the given object into the state.
clearAll(state) == Spread(state, initialState)

---------------------------------------------------------------------------
(* The iframe event listener.  A message is [origin, rawData]; rawData is  *)
(*   kind     "object", or "null" / "string" for data that is no object;   *)
(*   top      its top-level keys other than data;                          *)
(*   dataKind "absent" or "object": the top-level data key;                *)
(*   data     the keys of data, when it is an object.                      *)

\* The encoded values that are JavaScript numbers; every other encoded
\* value except undefined and null is a string.
Numbers == {"0", "7", "42", "90", "1000", "2000", "1001", "1002", "1003",
            "1704067200000"}

IsNumber(v) == v \in Numbers

IsString(v) == v \notin Numbers \cup {Undef, Null}

\* Date.now() at clock reading t.
DateNow(t) == IF t = 1 THEN "1001" ELSE IF t = 2 THEN "1002" ELSE "1003"

\* new Date(text).getTime() for the one date text of the model.
DateParse(text) == IF text = "2024-01-01T00:00:00.000Z" THEN "1704067200000" ELSE "NaN"

\* What normalizeEventPayload returns when it returns null.
NotNormalized == [eventType |-> Null, data |-> EmptyObject]

\* The canonical record read from the flat shape.
FlatRecord(rawData, now) ==
  [ eventType |-> Get(rawData.top, "event"),
    data |->
      [ session_id |->
          Or(Or(Get(rawData.top, "sessionId"), Get(rawData.top, "session_id")), ""),
        scenario_id |-> Get(rawData.top, "scenarioId"),
        duration_seconds |-> Get(rawData.top, "duration_seconds"),
        timestamp |->
          IF IsNumber(Get(rawData.top, "timestamp"))
          THEN rawData.top.timestamp
          ELSE DateNow(now) ] ]

\* The canonical record read from the nested shape; rawData.data || {}.
NestedRecord(rawData, now) ==
  LET nestedData == IF rawData.dataKind = "object" THEN rawData.data
                    ELSE EmptyObject
  IN  [ eventType |-> Get(rawData.top, "type"),
        data |->
          [ session_id |-> Or(Get(nestedData, "session_id"), ""),
            scenario_id |-> Get(nestedData, "scenario_id"),
            duration_seconds |-> Get(nestedData, "duration_seconds"),
            timestamp |->
              IF IsNumber(Get(nestedData, "timestamp"))
              THEN nestedData.timestamp
              ELSE IF IsString(Get(nestedData, "timestamp"))
              THEN DateParse(nestedData.timestamp)
              ELSE DateNow(now) ] ]

\* normalizeEventPayload that reads the nested shape's fields from the
\* top level, as the flat shape has them.
normalizeEventPayloadTopLevel(rawData, now) ==
  IF Truthy(Get(rawData.top, "event")) /\ IsString(Get(rawData.top, "event"))
  THEN FlatRecord(rawData, now)
  ELSE IF Truthy(Get(rawData.top, "type")) /\ IsString(Get(rawData.top, "type"))
  THEN [FlatRecord(rawData, now) EXCEPT !.eventType = rawData.top.type]
  ELSE NotNormalized

normalizeEventPayload(rawData, now) ==
  IF Truthy(Get(rawData.top, "event")) /\ IsString(Get(rawData.top, "event"))
  THEN FlatRecord(rawData, now)
  ELSE IF Truthy(Get(rawData.top, "type")) /\ IsString(Get(rawData.top, "type"))
  THEN NestedRecord(rawData, now)
  ELSE NotNormalized

\* A handler invocation: the handler's name and its argument.
Call(handler, arg) == [handler |-> handler, arg |-> arg]

NoCall == Call("none", EmptyObject)

\* The dispatch of a message once it is past the origin check.
dispatchMessage(event, now) ==
  IF event.data.kind # "object" THEN NoCall
  ELSE IF Get(event.data.top, "type") = "onError" \/ Get(event.data.top, "event") = "onError"
  THEN Call("onError",
            IF event.data.dataKind = "object" THEN event.data.data
            ELSE [code |-> "unknown",
                  message |-> Or(Get(event.data.top, "message"), "Unknown error")])
  ELSE IF Get(event.data.top, "type") = "onReady" \/ Get(event.data.top, "event") = "onReady"
  THEN Call("onReady",
            [scenario_id |->
               Or(Or(IF event.data.dataKind = "object"
                     THEN Get(event.data.data, "scenario_id") ELSE Undef,
                     Get(event.data.top, "scenarioId")), "")])
  ELSE LET normalized == normalizeEventPayload(event.data, now)
       IN  IF normalized.eventType \in {"onStart", "onStop", "onTerminated", "onSubmit"}
           THEN Call(normalized.eventType, normalized.data)
           ELSE NoCall

\* handleMessage with the origin check left out.
handleMessageAnyOrigin(event, now) == dispatchMessage(event, now)

\* handleMessage: the handler a message is dispatched to, with its
\* argument; NoCall when the message is dropped.
handleMessage(event, now) ==
  IF event.origin # TOUGHTONGUE_ORIGIN THEN NoCall
  ELSE dispatchMessage(event, now)

---------------------------------------------------------------------------
(* The pages that listen.  A registration exists while its page shows the  *)
(* iframe; `ui` holds the pages' view flags.                               *)

\* The details the pages' onStart handlers pass to the add mutators.
StartDetails(scenarioId, scenario_id, now) ==
  [ scenarioId |-> scenarioId,
    scenario_id |-> scenario_id,
    created_at |-> toISOString(now),
    status |-> "active" ]

\* The details the pages' onStop / onTerminated handlers merge.
EndDetails(status, duration, now) ==
  [ completed_at |-> toISOString(now), duration |-> duration, status |-> status ]

\* The handlers each registration passes to createIframeEventListener.
HandlersOf(registration) == {"onStart", "onStop", "onTerminated", "onSubmit", "onError"}

\* A listener kept in a single slot, as window.onmessage = handleMessage
\* would keep it: the registration made last is the only one in place.
RegistrationsLatest(view) ==
  IF view.listeners = <<>> THEN <<>> ELSE <<view.listeners[Len(view.listeners)]>>

\* The registrations in place, in the order their listeners were added:
\* each createIframeEventListener adds a listener of its own to the
\* window, and its cleanup removes that listener.
Registrations(view) == view.listeners

\* The view flag each registering effect depends on: the test page's
\* effect on showTest, the coach page's two effects on showAssessment and
\* showCoach.
Shown(view, registration) ==
  CASE registration = "test" -> view.showTest
    [] registration = "assessment" -> view.showAssessment
    [] registration = "coach" -> view.showCoach

\* Effects whose cleanup is never run: a listener stays in place after its
\* view has closed.
runEffectsNoCleanup(view) ==
  [view EXCEPT
     !.listeners =
        @ \o SelectSeq(<<"test", "assessment", "coach">>,
                       LAMBDA r : Shown(view, r) /\ ~Includes(view.listeners, r))]

\* The state of the pages' components when they mount: no view is shown
\* and no listener is in place; on the results page no row is selected,
\* nothing is being fetched or analyzed and no request is in flight; the
\* auth context holds no user.
initialView ==
  [ showTest |-> FALSE, testCompleted |-> FALSE,
    showAssessment |-> FALSE, showCoach |-> FALSE,
    listeners |-> <<>>,
    selectedSessionId |-> Null, isFetching |-> FALSE, isAnalyzing |-> FALSE,
    error |-> Null, requests |-> <<>>,
    currentUser |-> Null ]

\* The requests of the results page that may be in flight at a time.
MaxRequests == 2

\* The request fetchSession sends; `analyze` tells whether analyzeSession
\* awaits it.
GetRequest(sessionId, analyze) ==
  [kind |-> "GET", sessionId |-> sessionId, analyze |-> analyze]

\* The sequence without its i-th element.
Without(seq, i) == SubSeq(seq, 1, i - 1) \o SubSeq(seq, i + 1, Len(seq))

\* The effects after a render: the cleanup of every effect whose flag has
\* gone false removes its listener, and every effect whose flag has gone
\* true registers, in the order the effects are declared.
runEffects(view) ==
  [view EXCEPT
     !.listeners =
        SelectSeq(@, LAMBDA r : Shown(view, r))
          \o SelectSeq(<<"test", "assessment", "coach">>,
                       LAMBDA r : Shown(view, r) /\ ~Includes(view.listeners, r))]

\* The test page's handlers: from [store, ui] to [store, ui].
TestHandlers(call, st, now) ==
  IF call.handler = "onStart"
  THEN [st EXCEPT !.store =
          addAssessmentSession(st.store, call.arg.session_id,
                               StartDetails(PERSONALITY_TEST, call.arg.scenario_id, now))]
  ELSE IF call.handler = "onStop"
  THEN [st EXCEPT !.store =
          updateSessionDetails(st.store, call.arg.session_id,
                               EndDetails("completed", call.arg.duration_seconds, now))]
  ELSE IF call.handler = "onTerminated"
  THEN [st EXCEPT !.store =
          updateSessionDetails(st.store, call.arg.session_id,
                               EndDetails("terminated", call.arg.duration_seconds, now)),
                  !.ui = [st.ui EXCEPT !.showTest = FALSE, !.testCompleted = TRUE]]
  ELSE IF call.handler = "onSubmit"
  THEN [st EXCEPT !.ui = [st.ui EXCEPT !.showTest = FALSE, !.testCompleted = TRUE]]
  ELSE st

\* The handlers of the pages that call a mutator of the store.
CallsSet(call) == call.handler \in {"onStart", "onStop", "onTerminated"}

\* The coach page's handlers for the assessment it embeds.
AssessmentHandlers(call, st, now) ==
  IF call.handler = "onStart"
  THEN [st EXCEPT !.store =
          addAssessmentSession(st.store, call.arg.session_id,
                               StartDetails(PERSONALITY_TEST, call.arg.scenario_id, now))]
  ELSE IF call.handler = "onStop"
  THEN [st EXCEPT !.store =
          updateSessionDetails(st.store, call.arg.session_id,
                               EndDetails("completed", call.arg.duration_seconds, now))]
  ELSE IF call.handler = "onTerminated"
  THEN [st EXCEPT !.store =
          updateSessionDetails(st.store, call.arg.session_id,
                               EndDetails("terminated", call.arg.duration_seconds, now)),
                  !.ui = [st.ui EXCEPT !.showAssessment = FALSE]]
  ELSE IF call.handler = "onSubmit"
  THEN [st EXCEPT !.ui = [st.ui EXCEPT !.showAssessment = FALSE]]
  ELSE st

\* An onSubmit that records the session as completed before it closes the
\* view.
CoachOnSubmitCompletes(call, st, now) ==
  [st EXCEPT !.store =
        updateSessionDetails(st.store, call.arg.session_id,
                             EndDetails("completed", call.arg.duration_seconds, now)),
             !.ui = [st.ui EXCEPT !.showCoach = FALSE]]

\* The coach registration's onSubmit: setShowCoach(false).
CoachOnSubmit(call, st, now) ==
  [st EXCEPT !.ui = [st.ui EXCEPT !.showCoach = FALSE]]

\* The coach page's handlers for the coaching session.
CoachHandlers(call, st, now) ==
  IF call.handler = "onStart"
  THEN [st EXCEPT !.store =
          addCoachSession(st.store, call.arg.session_id,
                          StartDetails(PERSONALITY_COACH, call.arg.scenario_id, now))]
  ELSE IF call.handler = "onStop"
  THEN [st EXCEPT !.store =
          updateSessionDetails(st.store, call.arg.session_id,
                               EndDetails("completed", call.arg.duration_seconds, now))]
  ELSE IF call.handler = "onTerminated"
  THEN [st EXCEPT !.store =
          updateSessionDetails(st.store, call.arg.session_id,
                               EndDetails("terminated", call.arg.duration_seconds, now)),
                  !.ui = [st.ui EXCEPT !.showCoach = FALSE]]
  ELSE IF call.handler = "onSubmit"
  THEN CoachOnSubmit(call, st, now)
  ELSE st

\* The handlers a registration was made with.
PageHandlers(registration, call, st, now) ==
  CASE registration = "test" -> TestHandlers(call, st, now)
    [] registration = "assessment" -> AssessmentHandlers(call, st, now)
    [] registration = "coach" -> CoachHandlers(call, st, now)

\* Every listener in place receives the message; each one whose
\* registration has the handler runs it.
RECURSIVE RunHandlers(_, _, _, _)
RunHandlers(registrations, call, st, now) ==
  IF registrations = <<>> \/ call.handler = "none" THEN st
  ELSE RunHandlers(Tail(registrations), call,
                   IF call.handler \in HandlersOf(Head(registrations))
                   THEN PageHandlers(Head(registrations), call, st, now)
                   ELSE st,
                   now)

\* The invocations a message causes: one per registration with the handler.
Invocations(registrations, call) ==
  IF call.handler = "none" THEN <<>>
  ELSE [i \in 1..Len(SelectSeq(registrations,
                               LAMBDA r : call.handler \in HandlersOf(r))) |->
          [registration |-> SelectSeq(registrations,
                                      LAMBDA r : call.handler \in HandlersOf(r))[i],
           call |-> call]]

---------------------------------------------------------------------------
(* The results page: report cards, session fetch, Mark as Final.           *)

\* An evaluation_results object is named by a string; report_card gives
\* its report card, the empty sequence standing for "no report_card key".
Evaluations == {"evalINTP", "evalNoType", "evalTwoTypes", "evalNoCard"}

HasReportCard(evaluation) == evaluation \in Evaluations \ {"evalNoCard"}

report_card(evaluation) ==
  IF evaluation = "evalINTP"
  THEN << [topic |-> "personality_assessment", score_str |-> "INTP"],
          [topic |-> "energy_orientation", score_str |-> "Introvert"] >>
  ELSE IF evaluation = "evalTwoTypes"
  THEN << [topic |-> "energy_orientation", score_str |-> "Extravert"],
          [topic |-> "personality_assessment", score_str |-> "ENFJ"],
          [topic |-> "personality_assessment", score_str |-> "INTP"] >>
  ELSE IF evaluation = "evalNoType"
  THEN << [topic |-> "energy_orientation", score_str |-> "Introvert"] >>
  ELSE << >>

\* A find that returns the last item with the topic, as findLast would.
FindTypeItemLast(reportCard) ==
  IF \E i \in 1..Len(reportCard) : reportCard[i].topic = "personality_assessment"
  THEN CHOOSE i \in 1..Len(reportCard) :
         /\ reportCard[i].topic = "personality_assessment"
         /\ \A j \in (i + 1)..Len(reportCard) :
              reportCard[j].topic # "personality_assessment"
  ELSE 0

\* reportCard.find((item) => item.topic === "personality_assessment"): the
\* index of the first such item, 0 when there is none.
FindTypeItem(reportCard) ==
  IF \E i \in 1..Len(reportCard) : reportCard[i].topic = "personality_assessment"
  THEN CHOOSE i \in 1..Len(reportCard) :
         /\ reportCard[i].topic = "personality_assessment"
         /\ \A j \in 1..(i - 1) : reportCard[j].topic # "personality_assessment"
  ELSE 0

\* The summary paragraph names the type; "" when there is no type item.
buildAssessmentSummary(reportCard) ==
  IF FindTypeItem(reportCard) = 0 THEN ""
  ELSE "The user's MBTI personality has been assessed as "
         \o reportCard[FindTypeItem(reportCard)].score_str

\* getPersonalityData: what the results page shows of a report card, the
\* type and the dimension items.
getPersonalityData(reportCard) ==
  [ type |-> IF FindTypeItem(reportCard) = 0 THEN Null
             ELSE Or(reportCard[FindTypeItem(reportCard)].score_str, Null),
    dimensions |-> SelectSeq(reportCard,
                             LAMBDA item : item.topic # "personality_assessment") ]

\* The partial detail fetchSession merges from the server's response.
FetchedDetails(data) ==
  [ scenario_id          |-> Get(data, "scenario_id"),
    scenario_name        |-> Get(data, "scenario_name"),
    status               |-> Get(data, "status"),
    created_at           |-> Get(data, "created_at"),
    completed_at         |-> Get(data, "completed_at"),
    user_name            |-> Get(data, "user_name"),
    user_email           |-> Get(data, "user_email"),
    duration             |-> Get(data, "duration"),
    finalized_transcript |->
      Or(Get(data, "finalized_transcript"), Get(data, "transcript_content")),
    evaluation_results   |-> Get(data, "evaluation_results"),
    improvement_results  |-> Get(data, "improvement_results") ]

markAsFinalAssessment(state, sessionId) ==
  IF \/ sessionId \notin DOMAIN state.sessionDetails
     \/ ~HasReportCard(Get(state.sessionDetails[sessionId], "evaluation_results"))
  THEN state
  ELSE LET reportCard ==
             report_card(state.sessionDetails[sessionId].evaluation_results)
           typeItem == FindTypeItem(reportCard)
           mbtiType == IF typeItem = 0 THEN Null
                       ELSE Or(reportCard[typeItem].score_str, Null)
       IN  setUserPersonalityAssessment(state, mbtiType,
                                        buildAssessmentSummary(reportCard), sessionId)

---------------------------------------------------------------------------
(* The admin routes of the server.  `server` holds the value of           *)
(* process.env.ADMIN_TOKEN the server was started with, the calls it has  *)
(* made to the upstream API and the response it gave last.                *)

DEFAULT_ADMIN_TOKEN == "TTAI-STARTER-ADMIN-TOKEN"

\* AppConfig.admin.token: process.env.ADMIN_TOKEN || DEFAULT_ADMIN_TOKEN.
AdminToken(env) == IF env \in {Undef, ""} THEN DEFAULT_ADMIN_TOKEN ELSE env

\* request.headers.get(name): null when the request has no such header.
HeadersGet(headers, name) == IF name \in DOMAIN headers THEN headers[name] ELSE Null

\* A verifyAdminToken that lets a request without the header through.
verifyAdminTokenIfPresent(request, env) ==
  \/ HeadersGet(request.headers, "x-admin-token") = Null
  \/ HeadersGet(request.headers, "x-admin-token") = AdminToken(env)

verifyAdminToken(request, env) ==
  HeadersGet(request.headers, "x-admin-token") = AdminToken(env)

unauthorizedResponse == [status |-> 401, body |-> "Unauthorized"]

\* searchParams.get(name) || undefined
SearchParam(request, name) == Or(HeadersGet(request.query, name), Undef)

\* parseInt(text, 10) on the limits of the model.
parseInt(text) == IF text = "5" THEN "5" ELSE "NaN"

\* The response a route gives once the upstream call has returned or
\* thrown: the upstream's answer, the status of a ToughTongueError (500
\* when it has none), 500 on any other error.
Answered(outcome) ==
  IF outcome.kind = "ok" THEN [status |-> 200, body |-> outcome.body]
  ELSE IF outcome.kind = "ToughTongueError"
  THEN [status |-> IF outcome.status = 0 THEN 500 ELSE outcome.status,
        body |-> "ToughTongueError"]
  ELSE [status |-> 500, body |-> "Internal server error"]

\* A route's result: its response and the upstream calls it made.
Routed(response, called) == [response |-> response, called |-> called]

\* GET /api/sessions
GETSessions(request, env, outcome) ==
  IF ~verifyAdminToken(request, env) THEN Routed(unauthorizedResponse, <<>>)
  ELSE Routed(Answered(outcome),
              << [fn |-> "listSessions",
                  scenario_id |-> SearchParam(request, "scenario_id"),
                  limit |-> IF Truthy(HeadersGet(request.query, "limit"))
                            THEN parseInt(request.query.limit) ELSE Undef] >>)

\* GET /api/balance
GETBalance(request, env, outcome) ==
  IF ~verifyAdminToken(request, env) THEN Routed(unauthorizedResponse, <<>>)
  ELSE Routed(Answered(outcome), << [fn |-> "getBalance"] >>)

\* The server as it starts: no upstream call made, no response given.
ServerStart(env) ==
  [env |-> env, upstream |-> <<>>, response |-> [status |-> 0, body |-> Null]]

---------------------------------------------------------------------------
(* Inputs of the model. *)

\* The values of ADMIN_TOKEN a server is started with: unset, empty, set.
Envs == {Undef, "", "secret"}

\* Requests to the admin routes.
Requests ==
  { [headers |-> headers, query |-> query] :
      headers \in { EmptyObject, [k \in {"authorization"} |-> "Bearer secret"] }
                  \cup { [k \in {"x-admin-token"} |-> token] :
                           token \in {"", "secret", "SECRET", DEFAULT_ADMIN_TOKEN} },
      query \in { EmptyObject, [scenario_id |-> "sc1", limit |-> "5"],
                  [limit |-> "many"] } }

\* What the upstream call does: it answers, or throws a ToughTongueError
\* with the upstream's status (0 for none), or throws another error.
UpstreamOutcomes ==
  { [kind |-> "ok", status |-> 200, body |-> "data"],
    [kind |-> "ToughTongueError", status |-> 401, body |-> Null],
    [kind |-> "ToughTongueError", status |-> 0, body |-> Null],
    [kind |-> "Error", status |-> 0, body |-> Null] }

SessionIds == {"s1", "s2"}

Users == {"u1", "u2"}

\* Generated ids (`journal-${Date.now()}-${random}`, `activity-...`) are
\* taken as never colliding: the model hands out the first id not in use.
JournalIds == <<"journal-1", "journal-2", "journal-3", "journal-4", "journal-5">>

ActivityIds == <<"activity-1", "activity-2", "activity-3", "activity-4", "activity-5">>

IdsOf(entries) == {entries[i].id : i \in 1..Len(entries)}

FreshId(pool, entries) ==
  pool[CHOOSE i \in 1..Len(pool) :
         /\ pool[i] \notin IdsOf(entries)
         /\ \A j \in 1..(i - 1) : pool[j] \in IdsOf(entries)]

\* The clock: every call that reads it finds it one later than the call
\* before, until it reads MaxTime.
Tick(t) == IF t < MaxTime THEN t + 1 ELSE t

\* Responses of GET /api/sessions/:id.
Responses ==
  { [id |-> "srv"] }
  \cup { [id |-> "srv", status |-> "completed", duration |-> "90",
          transcript_content |-> "transcript", evaluation_results |-> e] :
         e \in Evaluations }

IsSet(v) == IF v = Null THEN 0 ELSE 1

StoreSize(state) ==
  Len(state.assessmentSessions) + Len(state.coachSessions)
    + Cardinality(DOMAIN state.sessionDetails)
    + Len(state.journalEntries) + Len(state.activityLogs)
    + IsSet(state.user) + IsSet(state.adminToken)
    + IsSet(state.userPersonalitySessionId)

Bounded(state) == StoreSize(state) <= MaxItems

Doc(kind, version, dataKind, data) ==
  [kind |-> kind, version |-> version, exportDate |-> "T1",
   dataKind |-> dataKind, data |-> data]

\* Documents importData rejects.
MalformedDocs ==
  { Doc("text", Undef, "absent", EmptyObject),
    Doc("null", Undef, "absent", EmptyObject),
    Doc("number", Undef, "absent", EmptyObject),
    Doc("object", Undef, "object", [user |-> "u2"]),
    Doc("object", "1.0", "absent", EmptyObject),
    Doc("object", "1.0", "null", EmptyObject),
    Doc("object", Undef, "absent", EmptyObject) }

\* The data objects of the well-formed documents a user may select, other
\* than the application's own exports.
ImportableData ==
  { EmptyObject,
    [user |-> "u2", userPersonalityType |-> "ENFJ",
     userPersonalityAssessment |-> "imported summary",
     userPersonalitySessionId |-> "s2"],
    [assessmentSessions |-> <<"s1", "s2">>],
    [coachSessions |-> <<"s2">>,
     sessionDetails |-> [k \in {"s2"} |-> [id |-> "s2", status |-> "completed"]]],
    [journalEntries |->
       << [id |-> "journal-4", userId |-> "u2", situation |-> "imported",
           createdAt |-> "T1", updatedAt |-> "T1"] >>] }

WellFormedDocs ==
  { Doc("object", "1.0", "object", d) : d \in ImportableData }
  \cup { Doc("object", "1.0", "string", EmptyObject) }

---------------------------------------------------------------------------
(* The store under the calls the pages make.  `last` records the call      *)
(* made last: its name, its argument where a property needs it, what it    *)
(* returned and whether it threw.                                          *)

Did(op, arg, ok) == [op |-> op, arg |-> arg, ok |-> ok, threw |-> FALSE]

\* A call that hands `next` to set() and does not read the clock.
StoreStep(next, op, arg) ==
  /\ Bounded(next)
  /\ store' = next
  /\ localStorage' = setItem(localStorage, next)
  /\ last' = Did(op, arg, TRUE)
  /\ UNCHANGED <<clock, ui, inbox, calls, server>>

\* A call that hands `next` to set() and reads the clock.
TimedStep(next, op, arg) ==
  /\ Bounded(next)
  /\ store' = next
  /\ localStorage' = setItem(localStorage, next)
  /\ clock' = Tick(clock)
  /\ last' = Did(op, arg, TRUE)
  /\ UNCHANGED <<ui, inbox, calls, server>>

SetUser ==
  \E user \in Users \cup {Null} :
    StoreStep(setUser(store, user), "setUser", Null)

SetAdminToken ==
  \E token \in {"admin-token", Null} :
    StoreStep(setAdminToken(store, token), "setAdminToken", Null)

AddAssessmentSession ==
  \E sessionId \in SessionIds :
    TimedStep(addAssessmentSession(store, sessionId,
                                   StartDetails(PERSONALITY_TEST, "sc1", clock)),
              "addAssessmentSession", sessionId)

RemoveAssessmentSession ==
  \E sessionId \in SessionIds :
    StoreStep(removeAssessmentSession(store, sessionId),
              "removeAssessmentSession", Null)

AddCoachSession ==
  \E sessionId \in SessionIds :
    TimedStep(addCoachSession(store, sessionId,
                              StartDetails(PERSONALITY_COACH, "sc1", clock)),
              "addCoachSession", sessionId)

RemoveCoachSession ==
  \E sessionId \in SessionIds :
    StoreStep(removeCoachSession(store, sessionId), "removeCoachSession", Null)

\* The partial details a page merges at the end of a session.
EndInputs(now) ==
  { EndDetails("completed", "42", now), EndDetails("terminated", Undef, now) }

\* The partial details the results page merges from a fetch.
FetchInputs == { FetchedDetails(data) : data \in Responses }

UpdateSessionDetails ==
  \E sessionId \in SessionIds :
    \E details \in EndInputs(clock) :
      TimedStep(updateSessionDetails(store, sessionId, details),
                "updateSessionDetails", sessionId)

\* The results page lists the assessment sessions; Fetch on a row merges
\* the server's response into that session's detail.
FetchSession ==
  \E i \in 1..Len(store.assessmentSessions) :
    \E details \in FetchInputs :
      StoreStep(updateSessionDetails(store, store.assessmentSessions[i], details),
                "fetchSession", store.assessmentSessions[i])

\* Mark as Final on the selected row: the button is shown once the
\* session's detail holds a report card, and is disabled on the session
\* that is final already.
MarkAsFinalAssessment ==
  \E i \in 1..Len(store.assessmentSessions) :
    /\ store.assessmentSessions[i] \in DOMAIN store.sessionDetails
    /\ HasReportCard(Get(store.sessionDetails[store.assessmentSessions[i]],
                         "evaluation_results"))
    /\ store.userPersonalitySessionId # store.assessmentSessions[i]
    /\ StoreStep(markAsFinalAssessment(store, store.assessmentSessions[i]),
                 "markAsFinalAssessment", store.assessmentSessions[i])

AddJournalEntry ==
  \E userId \in Users :
    TimedStep(addJournalEntry(store, [userId |-> userId, situation |-> "written"],
                              FreshId(JournalIds, store.journalEntries), clock),
              "addJournalEntry", Null)

UpdateJournalEntry ==
  \E id \in IdsOf(store.journalEntries) \cup {"journal-0"} :
    TimedStep(updateJournalEntry(store, id, [situation |-> "edited"], clock),
              "updateJournalEntry", id)

DeleteJournalEntry ==
  \E id \in IdsOf(store.journalEntries) \cup {"journal-0"} :
    StoreStep(deleteJournalEntry(store, id), "deleteJournalEntry", id)

LogActivity ==
  \E userId \in Users :
    TimedStep(logActivity(store, [userId |-> userId, action |-> "sign_in"],
                          FreshId(ActivityIds, store.activityLogs), clock),
              "logActivity", Null)

\* The activity tracker reads the logs under its filters.
GetActivityLogs ==
  \E filters \in { EmptyObject, [userId |-> "u1"],
                    [action |-> "sign_in", startDate |-> "T1", endDate |-> "T2"] } :
    /\ store' = getActivityLogs(store, filters).state
    /\ last' = Did("getActivityLogs", Null, TRUE)
    /\ UNCHANGED <<localStorage, clock, ui, inbox, calls, server>>

ClearActivityLogs == StoreStep(clearActivityLogs(store), "clearActivityLogs", Null)

\* handleExportData: the document is downloaded; the store is only read.
ExportData ==
  /\ clock' = Tick(clock)
  /\ last' = Did("exportData", Null, TRUE)
  /\ UNCHANGED <<store, localStorage, ui, inbox, calls, server>>

\* handleImportData on a file the user selects.
ImportData ==
  \E doc \in MalformedDocs \cup WellFormedDocs :
    /\ Bounded(importData(store, doc).state)
    /\ store' = importData(store, doc).state
    /\ localStorage' = IF importData(store, doc).ok
                       THEN setItem(localStorage, importData(store, doc).state)
                       ELSE localStorage
    /\ last' = [Did("importData", doc, importData(store, doc).ok)
                 EXCEPT !.threw = importData(store, doc).threw]
    /\ UNCHANGED <<clock, ui, inbox, calls, server>>

\* handleImportData on the file handleExportData has just produced.
ImportExported ==
  /\ store' = importData(store, exportData(store, clock)).state
  /\ localStorage' = IF importData(store, exportData(store, clock)).ok
                     THEN setItem(localStorage,
                                  importData(store, exportData(store, clock)).state)
                     ELSE localStorage
  /\ clock' = Tick(clock)
  /\ last' = [Did("importExported", Null, importData(store, exportData(store, clock)).ok)
               EXCEPT !.threw = importData(store, exportData(store, clock)).threw]
  /\ UNCHANGED <<ui, inbox, calls, server>>

ClearUserData ==
  \E userId \in Users \cup {""} :
    StoreStep(clearUserData(store, userId), "clearUserData", userId)

\* The local store editor saves an edited snapshot.
SetRawState ==
  \E newState \in { [assessmentSessions |-> <<"s2", "s2">>],
                    [user |-> "u1", coachSessions |-> <<>>],
                    [userPersonalityAssessment |-> "edited summary"] } :
    StoreStep(setRawState(store, newState), "setRawState", Null)

ClearAll == StoreStep(clearAll(store), "clearAll", Null)

---------------------------------------------------------------------------
(* The journal page.  Its handlers call a journal mutator and then         *)
(* logActivity; each of the two calls reads the clock.                     *)

\* JournalEntryForm.handleSubmit: the data the form hands to onSave.  The
\* form's content fields are carried by `situation`; notes is undefined
\* when the field is left empty.
JournalFormData(entry, situation, notes) ==
  [ userId |-> Or(Get(entry, "userId"), ""),
    situation |-> situation,
    notes |-> Or(notes, Undef) ]

\* The entries the page lists: those of the signed-in user.
userEntries(state, userId) ==
  SelectSeq(state.journalEntries, LAMBDA entry : entry.userId = userId)

\* handleSave: editingEntry is the id of the entry the form was opened
\* on, Null when the form was opened for a new entry.
handleSave(state, editingEntry, data, userId, now) ==
  IF editingEntry # Null
  THEN logActivity(updateJournalEntry(state, editingEntry, data, now),
                   [userId |-> userId, action |-> "update_journal"],
                   FreshId(ActivityIds, state.activityLogs), Tick(now))
  ELSE logActivity(addJournalEntry(state, Spread(data, [userId |-> userId]),
                                   FreshId(JournalIds, state.journalEntries), now),
                   [userId |-> userId, action |-> "create_journal"],
                   FreshId(ActivityIds, state.activityLogs), Tick(now))

\* handleDelete
handleDelete(state, id, userId, now) ==
  logActivity(deleteJournalEntry(state, id),
              [userId |-> userId, action |-> "delete_journal"],
              FreshId(ActivityIds, state.activityLogs), now)

\* A handler of a page that calls set() and reads the clock `reads` times.
PageStep(next, op, arg, reads) ==
  /\ Bounded(next)
  /\ store' = next
  /\ localStorage' = setItem(localStorage, next)
  /\ clock' = IF reads = 2 THEN Tick(Tick(clock)) ELSE Tick(clock)
  /\ last' = Did(op, arg, TRUE)
  /\ UNCHANGED <<ui, inbox, calls, server>>

\* "Save" on the form opened for a new entry.
HandleSaveNew ==
  \E userId \in Users, notes \in {"", "noted"} :
    PageStep(handleSave(store, Null,
                        JournalFormData(EmptyObject, "written", notes), userId, clock),
             "handleSaveNew", Null, 2)

\* "Save" on the form opened on one of the user's entries.
HandleSaveEdit ==
  \E userId \in Users :
    \E i \in 1..Len(userEntries(store, userId)) :
      PageStep(handleSave(store, userEntries(store, userId)[i].id,
                          JournalFormData(userEntries(store, userId)[i], "edited", ""),
                          userId, clock),
               "handleSaveEdit", userEntries(store, userId)[i].id, 2)

\* "Delete" on one of the user's entries.
HandleDelete ==
  \E userId \in Users :
    \E i \in 1..Len(userEntries(store, userId)) :
      PageStep(handleDelete(store, userEntries(store, userId)[i].id, userId, clock),
               "handleDelete", userEntries(store, userId)[i].id, 1)

---------------------------------------------------------------------------
(* Messages. *)

EventNames ==
  {"onStart", "onStop", "onTerminated", "onSubmit", "onError", "onReady", "onOther"}

Origins ==
  { TOUGHTONGUE_ORIGIN,
    "http://app.toughtongueai.com",
    "https://app.toughtongueai.com.evil.example" }

RawData(kind, top, dataKind, data) ==
  [kind |-> kind, top |-> top, dataKind |-> dataKind, data |-> data]

\* The objects over the given keys: choices maps each key to the values
\* it may hold, "absent" standing for an object without the key.
Objects(choices) ==
  { [k \in {x \in DOMAIN c : c[x] # "absent"} |-> c[k]] :
      c \in { f \in [DOMAIN choices -> UNION {choices[k] : k \in DOMAIN choices}] :
               \A k \in DOMAIN choices : f[k] \in choices[k] } }

\* The flat shape {event, sessionId, ...}.
FlatPayloads ==
  { RawData("object", top, "absent", EmptyObject) :
      top \in Objects([ event |-> EventNames,
                        sessionId |-> {"absent", "s1", ""},
                        session_id |-> {"absent", "s2"},
                        scenarioId |-> {"absent", "sc1"},
                        duration_seconds |-> {"absent", "42"},
                        timestamp |-> {"absent", "1000"} ]) }

\* The nested shape {type, data: {session_id, ...}}.
NestedPayloads ==
  { RawData("object", [type |-> type], "object", data) :
      type \in EventNames,
      data \in Objects([ session_id |-> {"absent", "s2", ""},
                         scenario_id |-> {"absent", "sc2"},
                         duration_seconds |-> {"absent", "7"},
                         timestamp |-> {"absent", "2000", "2024-01-01T00:00:00.000Z"} ]) }
  \cup { RawData("object", [type |-> type], "absent", EmptyObject) : type \in EventNames }

\* Payloads with the keys of both shapes.
BothPayloads ==
  { RawData("object",
            [event |-> event, type |-> type, sessionId |-> "s1",
             scenarioId |-> "sc1", timestamp |-> "1000"],
            "object",
            [session_id |-> "s2", scenario_id |-> "sc2",
             duration_seconds |-> "7", timestamp |-> "2000"]) :
      event \in EventNames, type \in EventNames }

\* Payloads of neither shape, among them data that is no object and an
\* event name that is no string.
OtherPayloads ==
  { RawData("null", EmptyObject, "absent", EmptyObject),
    RawData("string", EmptyObject, "absent", EmptyObject),
    RawData("object", EmptyObject, "absent", EmptyObject),
    RawData("object", [event |-> "1000", sessionId |-> "s1"], "absent", EmptyObject),
    RawData("object", [event |-> "1000", type |-> "onStart"], "object",
            [session_id |-> "s2"]),
    RawData("object", [message |-> "failed", type |-> "onError"], "absent", EmptyObject) }

Payloads == FlatPayloads \cup NestedPayloads \cup BothPayloads \cup OtherPayloads

Messages == { [origin |-> o, data |-> d] : o \in Origins, d \in Payloads }

\* The messages of a session as the embedded page sends them, in either
\* shape, and the same payloads from another origin.
SessionPayloads ==
  { RawData("object", top, "absent", EmptyObject) :
      top \in Objects([ event |-> EventNames,
                        sessionId |-> {"s1", "s2"},
                        scenarioId |-> {"sc1"},
                        duration_seconds |-> {"42"},
                        timestamp |-> {"1000"} ]) }
  \cup { RawData("object", [type |-> type], "object", data) :
           type \in EventNames,
           data \in Objects([ session_id |-> {"s1", "s2"},
                              scenario_id |-> {"sc2"},
                              duration_seconds |-> {"7"},
                              timestamp |-> {"2000"} ]) }

SessionMessages ==
  { [origin |-> o, data |-> d] :
      o \in {TOUGHTONGUE_ORIGIN, "https://app.toughtongueai.com.evil.example"},
      d \in SessionPayloads }

NoMessage == [origin |-> "none", data |-> RawData("null", EmptyObject, "absent", EmptyObject)]

---------------------------------------------------------------------------
(* The test page and the messages it receives. *)

UiStep(view, op) ==
  /\ ui' = runEffects(view)
  /\ last' = Did(op, Null, TRUE)
  /\ UNCHANGED <<store, localStorage, clock, inbox, calls, server>>

\* "Start" on the landing view.
StartTest ==
  /\ ~ui.showTest /\ ~ui.testCompleted
  /\ ~ui.showAssessment /\ ~ui.showCoach
  /\ UiStep([ui EXCEPT !.showTest = TRUE], "onStartTest")

\* "Cancel" on the iframe view.
CancelTest ==
  /\ ui.showTest /\ ~ui.testCompleted
  /\ UiStep([ui EXCEPT !.showTest = FALSE], "onCancel")

\* "Retake" on the completed view.
RetakeTest ==
  /\ ui.testCompleted
  /\ UiStep([ui EXCEPT !.testCompleted = FALSE, !.showTest = TRUE], "onRetake")

\* The coach page.  It shows the assessment iframe while showAssessment,
\* else the "assessment required" view while the store holds no
\* assessment, else the coach iframe while showCoach, else its landing
\* view.  The test page and the coach page are two routes: a button of one
\* is there only while no view of the other is open.
hasAssessment(state) == Truthy(state.userPersonalityAssessment)

OnCoachPage == ~ui.showTest /\ ~ui.testCompleted

\* "Start assessment" on the "assessment required" view.
StartAssessment ==
  /\ OnCoachPage /\ ~ui.showAssessment /\ ~hasAssessment(store)
  /\ UiStep([ui EXCEPT !.showAssessment = TRUE], "onStartAssessment")

\* "End session" on the assessment iframe view.
EndAssessment ==
  /\ OnCoachPage /\ ui.showAssessment
  /\ UiStep([ui EXCEPT !.showAssessment = FALSE], "onEndAssessment")

\* "Start coaching" on the landing view.
StartCoach ==
  /\ OnCoachPage /\ ~ui.showAssessment /\ hasAssessment(store) /\ ~ui.showCoach
  /\ UiStep([ui EXCEPT !.showCoach = TRUE], "onStartCoach")

\* "End session" on the coach iframe view.
EndCoach ==
  /\ OnCoachPage /\ ~ui.showAssessment /\ hasAssessment(store) /\ ui.showCoach
  /\ UiStep([ui EXCEPT !.showCoach = FALSE], "onEndCoach")

\* The user leaves the page: its component unmounts, the view flags are
\* gone and the effects' cleanups run.
LeavePage ==
  /\ ui.showTest \/ ui.testCompleted \/ ui.showAssessment \/ ui.showCoach
  /\ UiStep([ui EXCEPT !.showTest = FALSE, !.testCompleted = FALSE,
                       !.showAssessment = FALSE, !.showCoach = FALSE],
            "onLeavePage")

\* signInAsLocalUser: the new local user goes to the store and to the
\* auth context, and the sign-in is logged.
SignInAsLocalUser ==
  \E user \in Users :
    /\ store' = logActivity(setUser(store, user),
                            [userId |-> user, action |-> "sign_in"],
                            FreshId(ActivityIds, store.activityLogs), clock)
    /\ Bounded(store')
    /\ localStorage' = setItem(localStorage, store')
    /\ ui' = [ui EXCEPT !.currentUser = user]
    /\ clock' = Tick(clock)
    /\ last' = Did("signInAsLocalUser", user, TRUE)
    /\ UNCHANGED <<inbox, calls, server>>

\* logout: the sign-out is logged when the auth context holds a user,
\* the store's user and the auth context's user are cleared.
Logout ==
  /\ store' = setUser(IF ui.currentUser # Null
                      THEN logActivity(store,
                                       [userId |-> ui.currentUser, action |-> "sign_out"],
                                       FreshId(ActivityIds, store.activityLogs), clock)
                      ELSE store,
                      Null)
  /\ Bounded(store')
  /\ localStorage' = setItem(localStorage, store')
  /\ ui' = [ui EXCEPT !.currentUser = Null]
  /\ clock' = IF ui.currentUser # Null THEN Tick(clock) ELSE clock
  /\ last' = Did("logout", Null, TRUE)
  /\ UNCHANGED <<inbox, calls, server>>

\* The row's Fetch button, disabled while isFetching: it selects the row
\* and calls fetchSession, which sets isFetching, clears the error and
\* sends the request.
OnFetch ==
  \E i \in 1..Len(store.assessmentSessions) :
    /\ ~ui.isFetching
    /\ Len(ui.requests) < MaxRequests
    /\ ui' = [ui EXCEPT !.selectedSessionId = store.assessmentSessions[i],
                        !.isFetching = TRUE,
                        !.error = Null,
                        !.requests = Append(@, GetRequest(store.assessmentSessions[i], FALSE))]
    /\ last' = Did("onFetch", store.assessmentSessions[i], TRUE)
    /\ UNCHANGED <<store, localStorage, clock, inbox, calls, server>>

\* "Analyze Session" on the selected session, shown when its detail has
\* no evaluation and disabled while isAnalyzing.
OnAnalyze ==
  /\ ui.selectedSessionId \in DOMAIN store.sessionDetails
  /\ ~Truthy(Get(store.sessionDetails[ui.selectedSessionId], "evaluation_results"))
  /\ ~ui.isAnalyzing
  /\ Len(ui.requests) < MaxRequests
  /\ ui' = [ui EXCEPT !.isAnalyzing = TRUE,
                      !.error = Null,
                      !.requests = Append(@, [kind |-> "POST",
                                              sessionId |-> ui.selectedSessionId,
                                              analyze |-> TRUE])]
  /\ last' = Did("onAnalyze", ui.selectedSessionId, TRUE)
  /\ UNCHANGED <<store, localStorage, clock, inbox, calls, server>>

\* The response to a request of fetchSession arrives: the detail is
\* merged when the response is ok, the error is set when it is not, and
\* in both cases isFetching is set to false; analyzeSession, when it
\* awaited this fetch, then sets isAnalyzing to false.
FetchResponse ==
  \E i \in 1..Len(ui.requests) :
    /\ ui.requests[i].kind = "GET"
    /\ \/ \E details \in FetchInputs :
            /\ store' = updateSessionDetails(store, ui.requests[i].sessionId, details)
            /\ Bounded(store')
            /\ localStorage' = setItem(localStorage, store')
            /\ ui' = [ui EXCEPT !.isFetching = FALSE,
                                !.isAnalyzing = IF ui.requests[i].analyze THEN FALSE ELSE @,
                                !.requests = Without(@, i)]
            /\ last' = Did("fetchResponse", ui.requests[i].sessionId, TRUE)
       \/ /\ ui' = [ui EXCEPT !.isFetching = FALSE,
                                !.isAnalyzing = IF ui.requests[i].analyze THEN FALSE ELSE @,
                                !.error = "Failed to fetch session",
                                !.requests = Without(@, i)]
          /\ last' = Did("fetchResponse", ui.requests[i].sessionId, FALSE)
          /\ UNCHANGED <<store, localStorage>>
    /\ UNCHANGED <<clock, inbox, calls, server>>

\* The response to the analyze request arrives: when it is ok
\* analyzeSession calls fetchSession for the same session, when it is not
\* it sets the error and isAnalyzing to false.
AnalyzeResponse ==
  \E i \in 1..Len(ui.requests) :
    /\ ui.requests[i].kind = "POST"
    /\ \/ /\ ui' = [ui EXCEPT !.isFetching = TRUE,
                                !.error = Null,
                                !.requests = Append(Without(@, i),
                                                    GetRequest(ui.requests[i].sessionId, TRUE))]
          /\ last' = Did("analyzeResponse", ui.requests[i].sessionId, TRUE)
       \/ /\ ui' = [ui EXCEPT !.isAnalyzing = FALSE,
                                !.error = "Failed to analyze session",
                                !.requests = Without(@, i)]
          /\ last' = Did("analyzeResponse", ui.requests[i].sessionId, FALSE)
    /\ UNCHANGED <<store, localStorage, clock, inbox, calls, server>>

\* The window receives `message`: every listener in place handles it.
Deliver(message) ==
  LET call == handleMessage(message, clock)
      st == RunHandlers(Registrations(ui), call, [store |-> store, ui |-> ui], clock)
  IN  /\ store' = st.store
      /\ localStorage' = IF Invocations(Registrations(ui), call) # <<>> /\ CallsSet(call)
                         THEN setItem(localStorage, st.store)
                         ELSE localStorage
      /\ ui' = runEffects(st.ui)
      /\ clock' = Tick(clock)
      /\ inbox' = inbox
      /\ calls' = Invocations(Registrations(ui), call)
      /\ last' = Did("message", message.origin, TRUE)
      /\ UNCHANGED server

Init ==
  /\ store = initialState
  /\ localStorage = EmptyObject
  /\ clock = 1
  /\ last = Did("create", Null, TRUE)
  /\ ui = initialView
  /\ inbox = NoMessage
  /\ calls = <<>>
  /\ server = ServerStart(Undef)

Next ==
  \/ SetUser
  \/ SetAdminToken
  \/ AddAssessmentSession
  \/ RemoveAssessmentSession
  \/ AddCoachSession
  \/ RemoveCoachSession
  \/ UpdateSessionDetails
  \/ AddJournalEntry
  \/ LogActivity
  \/ ImportData
  \/ ClearUserData
  \/ SetRawState
  \/ ClearAll

Spec == Init /\ [][Next]_vars

\* The session records under the store's own calls, the store editor and
\* the import.
NextSessions ==
  \/ AddAssessmentSession
  \/ RemoveAssessmentSession
  \/ AddCoachSession
  \/ RemoveCoachSession
  \/ UpdateSessionDetails
  \/ SetRawState
  \/ ImportData
  \/ ClearAll

SpecSessions == Init /\ [][NextSessions]_vars

\* The settings page at work on a store that sign-in, the journal, the
\* activity log and imports fill.
NextData ==
  \/ SetUser
  \/ SetAdminToken
  \/ AddJournalEntry
  \/ LogActivity
  \/ ImportData
  \/ ClearUserData
  \/ ClearAll

SpecData == Init /\ [][NextData]_vars

\* The activity log among the calls of the other pages.
NextLogs ==
  \/ LogActivity
  \/ GetActivityLogs
  \/ ClearActivityLogs
  \/ SetUser
  \/ AddJournalEntry
  \/ DeleteJournalEntry
  \/ AddAssessmentSession
  \/ ImportData
  \/ ClearUserData
  \/ ClearAll

SpecLogs == Init /\ [][NextLogs]_vars

\* The journal page, the activity log and the settings page at work.
NextJournal ==
  \/ SetUser
  \/ AddJournalEntry
  \/ UpdateJournalEntry
  \/ DeleteJournalEntry
  \/ LogActivity
  \/ ClearActivityLogs
  \/ ExportData
  \/ ClearUserData

SpecJournal == Init /\ [][NextJournal]_vars

\* The results page at work: sessions are recorded, end, are fetched and
\* marked as final, and the data is exported and imported back.
NextResults ==
  \/ AddAssessmentSession
  \/ RemoveAssessmentSession
  \/ UpdateSessionDetails
  \/ FetchSession
  \/ MarkAsFinalAssessment
  \/ ImportExported
  \/ ClearAll

SpecResults == Init /\ [][NextResults]_vars

\* The window receives a message, whether or not a listener is in place.
MessageEvent ==
  \E message \in SessionMessages :
    /\ Deliver(message)
    /\ Bounded(store')

\* The test page at work.
NextIframe ==
  \/ StartTest
  \/ CancelTest
  \/ RetakeTest
  \/ MessageEvent

SpecIframe == Init /\ [][NextIframe]_vars

\* The page is closed and opened again: the store is created anew from
\* the durable record, and hydration may write the record back.
Restart ==
  /\ store' = rehydrate(localStorage)
  /\ localStorage' \in {localStorage, setItem(localStorage, rehydrate(localStorage))}
  /\ ui' = [initialView EXCEPT !.currentUser = rehydrate(localStorage).user]
  /\ calls' = <<>>
  /\ last' = Did("restart", Null, TRUE)
  /\ UNCHANGED <<clock, inbox, server>>

\* The store and its durable record: the pages mutate the store, the
\* activity tracker reads it, and the page is reloaded at any point.
NextPersist ==
  \/ SetUser
  \/ AddAssessmentSession
  \/ FetchSession
  \/ LogActivity
  \/ GetActivityLogs
  \/ ImportData
  \/ ClearAll
  \/ Restart

SpecPersist == Init /\ [][NextPersist]_vars

\* The messages of one session as the embedded page sends them in the
\* flat shape.
PageMessages ==
  { [origin |-> TOUGHTONGUE_ORIGIN,
     data |-> RawData("object",
                      [event |-> event, sessionId |-> "s1", scenarioId |-> "sc1",
                       duration_seconds |-> "42", timestamp |-> "1000"],
                      "absent", EmptyObject)] :
      event \in {"onStart", "onStop", "onTerminated", "onSubmit"} }

\* The window receives a message of the session.
PageEvent ==
  \E message \in PageMessages :
    /\ Deliver(message)
    /\ Bounded(store')

\* The test page and the coach page at work; the store editor is where
\* an assessment summary comes from.
NextPages ==
  \/ StartTest
  \/ CancelTest
  \/ RetakeTest
  \/ StartAssessment
  \/ EndAssessment
  \/ StartCoach
  \/ EndCoach
  \/ LeavePage
  \/ SetRawState
  \/ PageEvent

SpecPages == Init /\ [][NextPages]_vars

\* From the assessment to the coach: a session is recorded, fetched and
\* marked as final on the results page, and coaching is started and ended
\* on the coach page.
NextGate ==
  \/ AddAssessmentSession
  \/ FetchSession
  \/ MarkAsFinalAssessment
  \/ StartCoach
  \/ EndCoach
  \/ ClearAll

SpecGate == Init /\ [][NextGate]_vars

\* The results page and its requests: sessions are recorded, fetched and
\* analyzed, and the responses arrive in any order.
NextFetching ==
  \/ AddAssessmentSession
  \/ OnFetch
  \/ OnAnalyze
  \/ FetchResponse
  \/ AnalyzeResponse

SpecFetching == Init /\ [][NextFetching]_vars

\* The auth context and the store: the user signs in and out, the
\* settings page imports a document or clears everything, and the page is
\* reloaded.
NextAuth ==
  \/ SignInAsLocalUser
  \/ Logout
  \/ ImportData
  \/ ClearAll
  \/ Restart

SpecAuth == Init /\ [][NextAuth]_vars

\* The view with the flag of a registration's effect set.
Show(view, registration, shown) ==
  CASE registration = "test" -> [view EXCEPT !.showTest = shown]
    [] registration = "assessment" -> [view EXCEPT !.showAssessment = shown]
    [] registration = "coach" -> [view EXCEPT !.showCoach = shown]

\* createIframeEventListener(handlers) is called for a registration that
\* is not in place.
Register ==
  \E registration \in {"test", "assessment", "coach"} :
    /\ ~Shown(ui, registration)
    /\ ui' = runEffects(Show(ui, registration, TRUE))
    /\ last' = Did("register", registration, TRUE)
    /\ UNCHANGED <<store, localStorage, clock, inbox, calls, server>>

\* The cleanup function of a registration in place is called.
Cleanup ==
  \E registration \in {"test", "assessment", "coach"} :
    /\ Shown(ui, registration)
    /\ ui' = runEffects(Show(ui, registration, FALSE))
    /\ last' = Did("cleanup", registration, TRUE)
    /\ UNCHANGED <<store, localStorage, clock, inbox, calls, server>>

\* The messages of a session, the same start message from another origin
\* and a ready message, for which the pages register no handler.
ListenerMessages ==
  PageMessages
  \cup { [origin |-> "https://app.toughtongueai.com.evil.example",
          data |-> RawData("object",
                           [event |-> "onStart", sessionId |-> "s1",
                            scenarioId |-> "sc1", duration_seconds |-> "42",
                            timestamp |-> "1000"],
                           "absent", EmptyObject)],
         [origin |-> TOUGHTONGUE_ORIGIN,
          data |-> RawData("object", [type |-> "onReady"], "object",
                           [scenario_id |-> "sc2"])] }

ListenerEvent ==
  \E message \in ListenerMessages :
    /\ Deliver(message)
    /\ Bounded(store')

\* createIframeEventListener under any caller: registrations are made and
\* cleaned up in any order while messages arrive.
NextListeners ==
  \/ Register
  \/ Cleanup
  \/ ListenerEvent

SpecListeners == Init /\ [][NextListeners]_vars

\* A request to a route of the server.
RouteStep(routed, op, request) ==
  /\ Len(server.upstream) + Len(routed.called) <= MaxItems
  /\ server' = [server EXCEPT !.upstream = @ \o routed.called,
                              !.response = routed.response]
  /\ last' = Did(op, request, TRUE)
  /\ UNCHANGED <<store, localStorage, clock, ui, inbox, calls>>

ListSessionsRequest ==
  \E request \in Requests, outcome \in UpstreamOutcomes :
    RouteStep(GETSessions(request, server.env, outcome), "GET /api/sessions", request)

GetBalanceRequest ==
  \E request \in Requests, outcome \in UpstreamOutcomes :
    RouteStep(GETBalance(request, server.env, outcome), "GET /api/balance", request)

\* The server under any value of ADMIN_TOKEN and any requests.
InitRoutes ==
  /\ store = initialState
  /\ localStorage = EmptyObject
  /\ clock = 1
  /\ last = Did("create", Null, TRUE)
  /\ ui = initialView
  /\ inbox = NoMessage
  /\ calls = <<>>
  /\ server \in {ServerStart(env) : env \in Envs}

NextRoutes ==
  \/ ListSessionsRequest
  \/ GetBalanceRequest

SpecRoutes == InitRoutes /\ [][NextRoutes]_vars

\* The journal page at work, next to direct calls of the two mutators it
\* uses to write.
NextJournalPage ==
  \/ AddJournalEntry
  \/ UpdateJournalEntry
  \/ HandleSaveNew
  \/ HandleSaveEdit
  \/ HandleDelete

SpecJournalPage == Init /\ [][NextJournalPage]_vars

\* The actions the activity log is to track, as the pages perform them:
\* the test page and the coach page with the messages of a session, the
\* journal page and the settings page.
NextTracked ==
  \/ StartTest
  \/ PageEvent
  \/ HandleSaveNew
  \/ HandleSaveEdit
  \/ HandleDelete
  \/ ExportData
  \/ ImportData
  \/ ClearUserData

SpecTracked == Init /\ [][NextTracked]_vars

\* The normalizer and the dispatch as a function of the message: the test
\* page shows the iframe, and any message of the model is delivered.
InitNormalize ==
  /\ store = initialState
  /\ localStorage = EmptyObject
  /\ clock = 1
  /\ last = Did("create", Null, TRUE)
  /\ ui = [initialView EXCEPT !.showTest = TRUE, !.listeners = <<"test">>]
  /\ inbox \in Messages
  /\ calls = <<>>
  /\ server = ServerStart(Undef)

Redeliver == ui.showTest /\ Deliver(inbox)

NextNormalize == Redeliver

SpecNormalize == InitNormalize /\ [][NextNormalize]_vars

---------------------------------------------------------------------------
(* Properties. *)

\* C1: a message whose origin is not exactly the trusted origin, whatever
\* its payload, invokes no registered handler and changes no field of the
\* store (nor the view of the page that listens).
C1_UntrustedOriginIgnored ==
  [][(last'.op = "message" /\ last'.arg # TOUGHTONGUE_ORIGIN)
       => (store' = store /\ ui' = ui /\ calls' = <<>>)]_vars

\* An untrusted message has arrived while the test page listens and the
\* store holds a session.
C1_Witness ==
  /\ last.op = "message" /\ last.arg # TOUGHTONGUE_ORIGIN
  /\ ui.showTest
  /\ store.assessmentSessions # <<>>

\* The number of times x occurs in seq.
Count(seq, x) == Cardinality({i \in 1..Len(seq) : seq[i] = x})

\* The reference sequence an add call is made on, before and after it.
AddedTo(state) ==
  IF last'.op = "addAssessmentSession" THEN state.assessmentSessions
  ELSE state.coachSessions

IsAdd == last'.op \in {"addAssessmentSession", "addCoachSession"}

\* C2, as stated: after an add among any other mutators, the reference
\* sequence holds the added id exactly once, and an add of an id already
\* present leaves the sequence as it was.
C2_AddedExactlyOnce ==
  [][IsAdd =>
       /\ Count(AddedTo(store'), last'.arg) = 1
       /\ (Includes(AddedTo(store), last'.arg) => AddedTo(store') = AddedTo(store))]_vars

\* C2, amended: an add appends the id when the sequence does not hold it
\* and leaves the sequence as it was when it does; no element is lost or
\* moved, and the other reference sequence is not touched.
C2_AddAppendsIfAbsent ==
  [][IsAdd =>
       /\ SubSeq(AddedTo(store'), 1, Len(AddedTo(store))) = AddedTo(store)
       /\ Len(AddedTo(store')) =
            Len(AddedTo(store)) + (IF Includes(AddedTo(store), last'.arg) THEN 0 ELSE 1)
       /\ Includes(AddedTo(store'), last'.arg)
       /\ Count(AddedTo(store'), last'.arg) =
            (IF Includes(AddedTo(store), last'.arg)
             THEN Count(AddedTo(store), last'.arg) ELSE 1)
       /\ (last'.op = "addAssessmentSession" => store'.coachSessions = store.coachSessions)
       /\ (last'.op = "addCoachSession"
             => store'.assessmentSessions = store.assessmentSessions)]_vars

\* An id has been added again while it was first of two: it is still
\* first, and the sequence holds each id once.
C2_Witness ==
  /\ last.op = "addAssessmentSession"
  /\ Len(store.assessmentSessions) = 2
  /\ store.assessmentSessions[1] = last.arg
  /\ store.assessmentSessions[2] # last.arg

\* The keys an updateSessionDetails call of the model mentions: those of
\* the record a page's handler or the fetch passes.
Mentioned ==
  IF last'.op = "fetchSession" THEN DOMAIN FetchedDetails(EmptyObject)
  ELSE DOMAIN EndDetails("completed", Undef, 1)

\* C3: an updateSessionDetails call on an id keeps the value of every
\* field of that id's detail that the update does not mention, leaves the
\* details of every other id as they were, and creates the detail when
\* there was none; nothing else in the store changes.
C3_ShallowMergeFrame ==
  [][last'.op \in {"updateSessionDetails", "fetchSession"} =>
       /\ DOMAIN store'.sessionDetails = DOMAIN store.sessionDetails \cup {last'.arg}
       /\ \A id \in DOMAIN store.sessionDetails \ {last'.arg} :
            store'.sessionDetails[id] = store.sessionDetails[id]
       /\ last'.arg \in DOMAIN store.sessionDetails =>
            \A k \in DOMAIN store.sessionDetails[last'.arg] \ Mentioned :
              /\ k \in DOMAIN store'.sessionDetails[last'.arg]
              /\ store'.sessionDetails[last'.arg][k] = store.sessionDetails[last'.arg][k]
       /\ \A f \in DOMAIN store \ {"sessionDetails"} : store'[f] = store[f]]_vars

\* A session that was started and fetched has then been ended by an
\* update: the fields of the start and of the fetch are still there.
C3_Witness ==
  /\ last.op = "updateSessionDetails"
  /\ last.arg \in DOMAIN store.sessionDetails
  /\ Get(store.sessionDetails[last.arg], "scenarioId") = PERSONALITY_TEST
  /\ Get(store.sessionDetails[last.arg], "evaluation_results") = "evalINTP"
  /\ Get(store.sessionDetails[last.arg], "status") = "terminated"

\* Two session-details maps that no read tells apart: the same ids, and
\* under each id the same value for every key (a key that is absent reads
\* as undefined).
SameDetails(a, b) ==
  /\ DOMAIN a = DOMAIN b
  /\ \A id \in DOMAIN a :
       \A k \in (DOMAIN a[id]) \cup (DOMAIN b[id]) : Get(a[id], k) = Get(b[id], k)

\* C4: importData on the document exportData has just returned returns
\* true and leaves the eight exported fields as they were.
C4_ExportImportRoundTrip ==
  [][last'.op = "importExported" =>
       /\ last'.ok
       /\ \A f \in {"user", "userPersonalityType", "userPersonalityAssessment",
                    "userPersonalitySessionId", "assessmentSessions",
                    "coachSessions", "journalEntries"} : store'[f] = store[f]
       /\ SameDetails(store'.sessionDetails, store.sessionDetails)]_vars

\* A document that is not parseable JSON, or whose top level lacks the
\* version key or the data key.
Lacks(doc) == doc.kind # "object" \/ doc.version = Undef \/ doc.dataKind = "absent"

\* C5: importData on a document that is not parseable or lacks version or
\* data returns false, does not throw and leaves the store as it was.
C5_MalformedImportRejected ==
  [][(last'.op = "importData" /\ Lacks(last'.arg))
       => (~last'.ok /\ ~last'.threw /\ store' = store)]_vars

\* A document with data but no version has been imported into a store
\* that holds another user than the document's.
C5_Witness ==
  /\ last.op = "importData"
  /\ last.arg.kind = "object" /\ last.arg.version = Undef
  /\ last.arg.dataKind = "object" /\ Get(last.arg.data, "user") = "u2"
  /\ ~last.ok
  /\ store.user = "u1"

\* C6: clearUserData(U) leaves no journal entry of U, keeps the entries of
\* every other user as they were and in their order, and changes no other
\* field of the store.
C6_ClearUserDataFrame ==
  [][last'.op = "clearUserData" =>
       /\ \A i \in 1..Len(store'.journalEntries) :
            store'.journalEntries[i].userId # last'.arg
       /\ store'.journalEntries =
            SelectSeq(store.journalEntries, LAMBDA entry : entry.userId # last'.arg)
       /\ \A f \in DOMAIN store \ {"journalEntries"} : store'[f] = store[f]]_vars

\* u1's data has been cleared from a journal that held an entry of u1 and
\* then one of u2: the second entry alone is left, and u1 is still the
\* user.
C6_Witness ==
  /\ last.op = "clearUserData" /\ last.arg = "u1"
  /\ store.user = "u1"
  /\ Len(store.journalEntries) = 1
  /\ store.journalEntries[1].id = "journal-2"
  /\ store.journalEntries[1].userId = "u2"

\* C7: clearAll leaves exactly the default state: no user, no admin
\* token, no finalized assessment, and every collection empty.
C7_ClearAllYieldsDefault ==
  [][last'.op = "clearAll" =>
       /\ store'.user = Null /\ store'.adminToken = Null
       /\ store'.userPersonalityType = Null
       /\ store'.userPersonalityAssessment = Null
       /\ store'.userPersonalitySessionId = Null
       /\ store'.assessmentSessions = <<>> /\ store'.coachSessions = <<>>
       /\ store'.sessionDetails = EmptyObject
       /\ store'.journalEntries = <<>> /\ store'.activityLogs = <<>>
       /\ DOMAIN store' = DOMAIN initialState]_vars

\* Everything has been cleared after the clock was read, that is after a
\* session, a journal entry or an activity log was recorded.
C7_Witness ==
  /\ last.op = "clearAll"
  /\ clock > 1
  /\ store = initialState

\* The trusted stop messages of the nested shape that carry a duration.
NestedStops ==
  { m \in SessionMessages :
      /\ m.origin = TOUGHTONGUE_ORIGIN
      /\ Get(m.data.top, "type") = "onStop"
      /\ m.data.dataKind = "object"
      /\ "duration_seconds" \in DOMAIN m.data.data }

\* The fields the test page's start handler writes, status apart.
StartFields == {"id", "scenarioId", "scenarioType", "scenario_id", "created_at"}

\* C8: while the test page listens, a trusted nested stop message for a
\* session whose detail a start event created sets the detail's status to
\* completed and its duration to the message's duration_seconds, and
\* leaves scenarioId and the other fields of the start event as they were.
C8_NestedStopCompletes ==
  [][\A m \in NestedStops :
       ( /\ ui.showTest
         /\ m.data.data.session_id \in DOMAIN store.sessionDetails
         /\ StartFields \subseteq DOMAIN store.sessionDetails[m.data.data.session_id]
         /\ Deliver(m) )
       => LET before == store.sessionDetails[m.data.data.session_id]
              after == store'.sessionDetails[m.data.data.session_id]
          IN  /\ after.status = "completed"
              /\ after.duration = m.data.data.duration_seconds
              /\ \A k \in StartFields : k \in DOMAIN after /\ after[k] = before[k]
              /\ after.scenarioId = PERSONALITY_TEST]_vars

\* Session s1 was started at the first clock reading and a nested stop
\* with duration 7 has just been handled for it.
C8_Witness ==
  /\ last.op = "message" /\ last.arg = TOUGHTONGUE_ORIGIN
  /\ Len(calls) = 1
  /\ calls[1].call.handler = "onStop"
  /\ calls[1].call.arg.session_id = "s1"
  /\ calls[1].call.arg.scenario_id = "sc2"
  /\ "s1" \in DOMAIN store.sessionDetails
  /\ Get(store.sessionDetails["s1"], "created_at") = "T1"
  /\ Get(store.sessionDetails["s1"], "scenarioId") = PERSONALITY_TEST
  /\ Get(store.sessionDetails["s1"], "status") = "completed"
  /\ Get(store.sessionDetails["s1"], "duration") = "7"

SessionEvents == {"onStart", "onStop", "onTerminated", "onSubmit"}

\* The flat shape {event, sessionId, scenarioId, timestamp}, with or
\* without a duration, and no key of the nested shape.
IsFlatShape(rawData) ==
  /\ rawData.kind = "object" /\ rawData.dataKind = "absent"
  /\ {"event", "sessionId", "scenarioId", "timestamp"} \subseteq DOMAIN rawData.top
  /\ DOMAIN rawData.top \subseteq
       {"event", "sessionId", "scenarioId", "timestamp", "duration_seconds"}

\* The nested shape {type, data: {session_id, scenario_id,
\* duration_seconds, timestamp}}.
IsNestedShape(rawData) ==
  /\ rawData.kind = "object" /\ rawData.dataKind = "object"
  /\ DOMAIN rawData.top = {"type"}
  /\ DOMAIN rawData.data =
       {"session_id", "scenario_id", "duration_seconds", "timestamp"}

\* The time in milliseconds a payload's timestamp denotes.
Millis(timestamp) ==
  IF timestamp = "2024-01-01T00:00:00.000Z" THEN "1704067200000" ELSE timestamp

\* The invocation the claim expects of the one registration.
Invoked(handler, session, scenario, duration, timestamp) ==
  << [ registration |-> "test",
       call |-> [ handler |-> handler,
                  arg |-> [ session_id |-> session, scenario_id |-> scenario,
                            duration_seconds |-> duration,
                            timestamp |-> timestamp ] ] ] >>

\* C9: a trusted message of the flat or of the nested shape whose event
\* name is onStart, onStop, onTerminated or onSubmit invokes the handler
\* of that name, and no other, once for the registration in place, with
\* the session id, scenario id, duration and timestamp of the payload.
C9_ShapesDispatchCanonical ==
  [][(last'.op = "message" /\ inbox.origin = TOUGHTONGUE_ORIGIN) =>
       /\ (IsFlatShape(inbox.data) /\ inbox.data.top.event \in SessionEvents)
            => calls' = Invoked(inbox.data.top.event,
                                inbox.data.top.sessionId,
                                inbox.data.top.scenarioId,
                                Get(inbox.data.top, "duration_seconds"),
                                inbox.data.top.timestamp)
       /\ (IsNestedShape(inbox.data) /\ inbox.data.top.type \in SessionEvents)
            => calls' = Invoked(inbox.data.top.type,
                                inbox.data.data.session_id,
                                inbox.data.data.scenario_id,
                                inbox.data.data.duration_seconds,
                                Millis(inbox.data.data.timestamp))]_vars

\* A nested stop message with all four fields has been dispatched.
C9_Witness ==
  /\ last.op = "message" /\ inbox.origin = TOUGHTONGUE_ORIGIN
  /\ IsNestedShape(inbox.data) /\ inbox.data.top.type = "onStop"
  /\ inbox.data.data.timestamp = "2024-01-01T00:00:00.000Z"
  /\ Len(calls) = 1
  /\ calls[1].call.handler = "onStop"
  /\ calls[1].call.arg.session_id = "s2"
  /\ calls[1].call.arg.duration_seconds = "7"

\* C10: a trusted payload with both an event key and a type key is
\* dispatched to the handler the event key names, with the fields of the
\* flat keys, whatever the value of type.
C10_FlatTakesPrecedence ==
  [][(/\ last'.op = "message" /\ inbox.origin = TOUGHTONGUE_ORIGIN
      /\ inbox.data \in BothPayloads
      /\ inbox.data.top.event \in SessionEvents)
       => calls' = Invoked(inbox.data.top.event,
                           inbox.data.top.sessionId,
                           inbox.data.top.scenarioId,
                           Get(inbox.data.top, "duration_seconds"),
                           inbox.data.top.timestamp)]_vars

\* The trusted start messages, of either shape.
StartMessages ==
  { m \in SessionMessages :
      /\ m.origin = TOUGHTONGUE_ORIGIN
      /\ handleMessage(m, 1).handler = "onStart" }

\* The session id a start message is for.
StartedId(m) == handleMessage(m, 1).arg.session_id

\* C11: while the test page listens, a start event for a session id that
\* is recorded already leaves both reference sequences as they were and
\* keeps every field of the detail that the start event does not carry,
\* such as the completion time and the duration an earlier stop wrote.
C11_RestartKeepsDetail ==
  [][\A m \in StartMessages :
       ( /\ ui.showTest
         /\ Includes(store.assessmentSessions, StartedId(m))
         /\ StartedId(m) \in DOMAIN store.sessionDetails
         /\ Deliver(m) )
       => /\ store'.assessmentSessions = store.assessmentSessions
          /\ store'.coachSessions = store.coachSessions
          /\ \A k \in DOMAIN store.sessionDetails[StartedId(m)]
                        \ (StartFields \cup {"status"}) :
               /\ k \in DOMAIN store'.sessionDetails[StartedId(m)]
               /\ store'.sessionDetails[StartedId(m)][k]
                    = store.sessionDetails[StartedId(m)][k]]_vars

\* The fields of a detail the client may know before a fetch.
ClientKnown ==
  {"status", "created_at", "completed_at", "duration", "finalized_transcript",
   "evaluation_results"}

\* The fields of ClientKnown a get-session response omits; the transcript
\* comes under either of two names.
Omitted(data) ==
  { k \in ClientKnown :
      IF k = "finalized_transcript"
      THEN {"finalized_transcript", "transcript_content"} \cap DOMAIN data = {}
      ELSE k \notin DOMAIN data }

\* C12: a fetch merges the server's response into the session's detail so
\* that every client-known field the response omits keeps the value it
\* had before the fetch.
C12_FetchKeepsOmitted ==
  [][\A data \in Responses :
       ( /\ last'.op = "fetchSession"
         /\ last'.arg \in DOMAIN store.sessionDetails
         /\ store' = updateSessionDetails(store, last'.arg, FetchedDetails(data)) )
       => \A k \in Omitted(data) :
            Get(store'.sessionDetails[last'.arg], k)
              = Get(store.sessionDetails[last'.arg], k)]_vars

\* C13: no session id is in both the assessment sequence and the coach
\* sequence.
C13_SequencesDisjoint ==
  \A i \in 1..Len(store.assessmentSessions) :
    \A j \in 1..Len(store.coachSessions) :
      store.assessmentSessions[i] # store.coachSessions[j]

\* The default importData gives a field the document omits.
ImportDefault(field) ==
  IF field \in {"assessmentSessions", "coachSessions", "journalEntries"} THEN <<>>
  ELSE IF field = "sessionDetails" THEN EmptyObject
  ELSE Null

\* The document of the import made last: the one selected, or the export
\* just produced.
ImportedDoc ==
  IF last'.op = "importExported" THEN exportData(store, clock) ELSE last'.arg

\* The data a document carries; a data that is no object has no key.
DataOf(doc) == IF doc.dataKind = "object" THEN doc.data ELSE EmptyObject

\* C14: a successful importData sets each of the eight fields it covers
\* to the document's value, or to the field's default when the document
\* omits it, and leaves activityLogs and adminToken as they were.
C14_ImportReplaces ==
  [][(last'.op \in {"importData", "importExported"} /\ last'.ok) =>
       /\ \A f \in DOMAIN initialState \ {"activityLogs", "adminToken"} :
            store'[f] = IF f \in DOMAIN DataOf(ImportedDoc)
                        THEN DataOf(ImportedDoc)[f]
                        ELSE ImportDefault(f)
       /\ store'.activityLogs = store.activityLogs
       /\ store'.adminToken = store.adminToken]_vars

---------------------------------------------------------------------------
(* Durability. *)

\* The step just taken reached set(): every call of a mutator does, an
\* import only when it accepts the document, a message only when a
\* handler that calls a mutator was invoked; reading the logs, exporting,
\* the pages' buttons and a restart do not.
Mutation ==
  CASE last'.op \in {"importData", "importExported"} -> last'.ok
    [] last'.op = "message" -> calls' # <<>> /\ CallsSet(calls'[1].call)
    [] last'.op \in {"create", "restart", "getActivityLogs", "exportData",
                     "onStartTest", "onCancel", "onRetake", "onStartAssessment",
                     "onEndAssessment", "onStartCoach", "onEndCoach",
                     "onLeavePage", "register", "cleanup",
                     "GET /api/sessions", "GET /api/balance"} -> FALSE
    [] OTHER -> TRUE

\* Two states no read tells apart: every field equal, the session details
\* up to keys that hold undefined.
SameState(a, b) ==
  /\ DOMAIN a = DOMAIN b
  /\ \A f \in (DOMAIN a) \ {"sessionDetails"} : a[f] = b[f]
  /\ SameDetails(a.sessionDetails, b.sessionDetails)

\* C16: after every mutation the record under ttai-app-store holds the
\* entire current state, a step that is no mutation leaves the record as
\* it is, and a restart creates the store from the record: every field at
\* the value the last mutation left, the defaults when there is no record.
C16_DurableRecord ==
  [][/\ Mutation =>
          /\ PERSIST_NAME \in DOMAIN localStorage'
          /\ SameState(rehydrate(localStorage'), store')
     /\ (~Mutation /\ last'.op # "restart") => localStorage' = localStorage
     /\ last'.op = "restart" =>
          /\ rehydrate(localStorage') = rehydrate(localStorage)
          /\ IF PERSIST_NAME \in DOMAIN localStorage
             THEN \A f \in DOMAIN store' : store'[f] = localStorage[PERSIST_NAME].state[f]
             ELSE store' = initialState]_vars

\* A restart has brought back a session whose detail was fetched from a
\* server that left out the status, a user and the activity log.
C16_Witness ==
  /\ last.op = "restart"
  /\ store.assessmentSessions = <<"s1">>
  /\ "s1" \in DOMAIN store.sessionDetails
  /\ Get(store.sessionDetails["s1"], "scenarioId") = PERSONALITY_TEST
  /\ "status" \notin DOMAIN store.sessionDetails["s1"]
  /\ "completed_at" \notin DOMAIN store.sessionDetails["s1"]
  /\ Len(store.activityLogs) = 1

---------------------------------------------------------------------------
(* First match wins. *)

\* The report card of a session's detail.
CardOf(state, sessionId) ==
  report_card(Get(state.sessionDetails[sessionId], "evaluation_results"))

---------------------------------------------------------------------------
(* Submit and terminated. *)

\* C18: a message that invokes onSubmit leaves every field of the store
\* as it was and closes the view of each registration it reached; one
\* that invokes onTerminated leaves the status of its session at
\* "terminated" and closes the view of each registration it reached.
C18_SubmitAndTerminated ==
  [][(last'.op = "message" /\ calls' # <<>>) =>
       /\ calls'[1].call.handler = "onSubmit" =>
            /\ store' = store
            /\ \A i \in 1..Len(calls') :
                 Shown(ui, calls'[i].registration) /\ ~Shown(ui', calls'[i].registration)
       /\ calls'[1].call.handler = "onTerminated" =>
            /\ calls'[1].call.arg.session_id \in DOMAIN store'.sessionDetails
            /\ Get(store'.sessionDetails[calls'[1].call.arg.session_id], "status")
                 = "terminated"
            /\ \A i \in 1..Len(calls') :
                 Shown(ui, calls'[i].registration) /\ ~Shown(ui', calls'[i].registration)]_vars

\* The coach registration's onSubmit has run on a session that is still
\* active: the coach view is closed.
C18_Witness ==
  /\ last.op = "message"
  /\ Len(calls) = 1
  /\ calls[1].registration = "coach"
  /\ calls[1].call.handler = "onSubmit"
  /\ ~ui.showCoach /\ ui.listeners = <<>>
  /\ "s1" \in DOMAIN store.sessionDetails
  /\ Includes(store.coachSessions, "s1")
  /\ Get(store.sessionDetails["s1"], "status") = "active"

---------------------------------------------------------------------------
(* Independent registrations. *)

\* The invocations among `invocations` that went to a registration.
InvocationsOf(invocations, registration) ==
  {i \in 1..Len(invocations) : invocations[i].registration = registration}

\* C19: a message reaches every registration in place, once each, with the
\* handler and the argument the dispatch gives it, and the handler of
\* each has its effect; it reaches no registration that is not in place.
\* A cleanup takes its own registration out of place and leaves the
\* others, and only a registration's own register puts it in place.
C19_RegistrationsIndependent ==
  [][/\ \A m \in ListenerMessages :
          Deliver(m) =>
            \A r \in {"test", "assessment", "coach"} :
               IF Includes(ui.listeners, r)
               THEN handleMessage(m, clock).handler \in HandlersOf(r) =>
                      /\ Cardinality(InvocationsOf(calls', r)) = 1
                      /\ \A i \in InvocationsOf(calls', r) :
                           calls'[i].call = handleMessage(m, clock)
                      /\ handleMessage(m, clock).handler = "onStart" =>
                           Includes(IF r = "coach" THEN store'.coachSessions
                                    ELSE store'.assessmentSessions,
                                    handleMessage(m, clock).arg.session_id)
                      /\ handleMessage(m, clock).handler = "onSubmit" => ~Shown(ui', r)
               ELSE InvocationsOf(calls', r) = {}
     /\ last'.op = "cleanup" =>
          /\ ~Includes(ui'.listeners, last'.arg)
          /\ \A r \in {"test", "assessment", "coach"} \ {last'.arg} :
               Includes(ui'.listeners, r) <=> Includes(ui.listeners, r)
     /\ \A r \in {"test", "assessment", "coach"} :
          (Includes(ui'.listeners, r) /\ ~Includes(ui.listeners, r))
            => (last'.op = "register" /\ last'.arg = r)]_vars

\* With the coach registration made before the assessment registration
\* and the test registration cleaned up, a start message has reached
\* both, in that order, and each has recorded the session.
C19_Witness ==
  /\ last.op = "message"
  /\ ui.listeners = <<"coach", "assessment">>
  /\ Len(calls) = 2
  /\ calls[1].registration = "coach" /\ calls[2].registration = "assessment"
  /\ calls[1].call.handler = "onStart" /\ calls[2].call = calls[1].call
  /\ Includes(store.coachSessions, "s1")
  /\ Includes(store.assessmentSessions, "s1")

---------------------------------------------------------------------------
(* The admin routes. *)

---------------------------------------------------------------------------
(* Tracked actions. *)

\* The step appended one entry to the activity log, of the given action.
Logged(action) ==
  /\ Len(store'.activityLogs) = Len(store.activityLogs) + 1
  /\ store'.activityLogs[Len(store'.activityLogs)].action = action

\* C21: every tracked action the user performs appends an entry of its
\* type to the activity log: saving a new or an edited journal entry and
\* deleting one, exporting, importing and clearing data, and the start
\* and the completion of an assessment as the test page hears of them.
C21_TrackedActionsLogged ==
  [][/\ last'.op = "handleSaveNew" => Logged("create_journal")
     /\ last'.op = "handleSaveEdit" => Logged("update_journal")
     /\ last'.op = "handleDelete" => Logged("delete_journal")
     /\ last'.op = "exportData" => Logged("export_data")
     /\ (last'.op = "importData" /\ last'.ok) => Logged("import_data")
     /\ last'.op = "clearUserData" => Logged("clear_data")
     /\ (last'.op = "message" /\ calls' # <<>>) =>
          /\ calls'[1].call.handler = "onStart" => Logged("start_assessment")
          /\ calls'[1].call.handler = "onStop" => Logged("complete_assessment")]_vars

---------------------------------------------------------------------------
(* Editing a journal entry. *)

\* C22: an edit of the entry with a given id, by updateJournalEntry or by
\* "Save" on the journal page, keeps the number and the order of the
\* entries, leaves every entry with another id as it was, and keeps the
\* id, userId and createdAt of the entry with the id while its updatedAt
\* becomes the time of the edit; when no entry has the id, no entry
\* changes.
C22_EditChangesOneEntry ==
  [][last'.op \in {"updateJournalEntry", "handleSaveEdit"} =>
       /\ Len(store'.journalEntries) = Len(store.journalEntries)
       /\ \A i \in 1..Len(store.journalEntries) :
            IF store.journalEntries[i].id = last'.arg
            THEN /\ store'.journalEntries[i].id = store.journalEntries[i].id
                 /\ store'.journalEntries[i].userId = store.journalEntries[i].userId
                 /\ store'.journalEntries[i].createdAt = store.journalEntries[i].createdAt
                 /\ store'.journalEntries[i].updatedAt = toISOString(clock)
            ELSE store'.journalEntries[i] = store.journalEntries[i]]_vars

\* Of two entries the first has been edited on the journal page: it holds
\* the edited text and a later updatedAt, the second is as it was written.
C22_Witness ==
  /\ last.op = "handleSaveEdit"
  /\ Len(store.journalEntries) = 2
  /\ store.journalEntries[1].id = last.arg
  /\ store.journalEntries[1].situation = "edited"
  /\ store.journalEntries[1].createdAt = "T1"
  /\ store.journalEntries[1].updatedAt = "T2"
  /\ store.journalEntries[2].situation = "written"
  /\ store.journalEntries[2].updatedAt = store.journalEntries[2].createdAt

---------------------------------------------------------------------------
(* An end without a start. *)

\* C23: a stop or terminated message for a session id that has no detail
\* is handled: the detail it creates holds the completion time, the
\* duration and the status of that event and nothing else, the details of
\* other sessions are as they were, and neither reference sequence
\* changes.
C23_EndWithoutStart ==
  [][\A m \in PageMessages :
       ( /\ Deliver(m)
         /\ Registrations(ui) # <<>>
         /\ handleMessage(m, clock).handler \in {"onStop", "onTerminated"}
         /\ handleMessage(m, clock).arg.session_id \notin DOMAIN store.sessionDetails )
       => /\ DOMAIN store'.sessionDetails =
               DOMAIN store.sessionDetails \cup {handleMessage(m, clock).arg.session_id}
          /\ \A id \in DOMAIN store.sessionDetails :
               store'.sessionDetails[id] = store.sessionDetails[id]
          /\ store'.sessionDetails[handleMessage(m, clock).arg.session_id] =
               [ completed_at |-> toISOString(clock),
                 duration |-> handleMessage(m, clock).arg.duration_seconds,
                 status |-> IF handleMessage(m, clock).handler = "onStop"
                            THEN "completed" ELSE "terminated" ]
          /\ store'.assessmentSessions = store.assessmentSessions
          /\ store'.coachSessions = store.coachSessions]_vars

\* The test page has handled a terminated message for a session it never
\* saw start: the detail of three fields is all the store holds.
C23_Witness ==
  /\ last.op = "message"
  /\ Len(calls) = 1 /\ calls[1].registration = "test"
  /\ calls[1].call.handler = "onTerminated"
  /\ DOMAIN store.sessionDetails = {"s1"}
  /\ DOMAIN store.sessionDetails["s1"] = {"completed_at", "duration", "status"}
  /\ store.sessionDetails["s1"].status = "terminated"
  /\ store.sessionDetails["s1"].duration = "42"
  /\ store.assessmentSessions = <<>> /\ store.coachSessions = <<>>

---------------------------------------------------------------------------
(* Reading the activity log. *)

\* C24: getActivityLogs is a pure read: under any filter, also none or an
\* empty one, the stored activity log has the same entries in the same
\* order after the call as before it.
C24_GetActivityLogsReadsOnly ==
  [][last'.op = "getActivityLogs" => store'.activityLogs = store.activityLogs]_vars

---------------------------------------------------------------------------
(* The ids the pages record. *)

\* C25: whatever trusted messages the pages have handled, every id in the
\* assessment sequence and in the coach sequence is a non-empty string: a
\* start message without a session id adds no reference.
C25_ReferencesNonEmpty ==
  /\ \A i \in 1..Len(store.assessmentSessions) :
       store.assessmentSessions[i] \notin {"", Undef, Null}
  /\ \A i \in 1..Len(store.coachSessions) :
       store.coachSessions[i] \notin {"", Undef, Null}

---------------------------------------------------------------------------
(* The session the final assessment points at. *)

\* C26: whenever userPersonalitySessionId is set, the details map holds a
\* record for that id and the record's evaluation has a report card.
C26_FinalHasReportCard ==
  store.userPersonalitySessionId # Null =>
    /\ store.userPersonalitySessionId \in DOMAIN store.sessionDetails
    /\ HasReportCard(Get(store.sessionDetails[store.userPersonalitySessionId],
                         "evaluation_results"))

---------------------------------------------------------------------------
(* The gate of the coach page. *)

\* C27: once Mark as Final has set userPersonalitySessionId, the coach
\* page's gate is open (userPersonalityAssessment is non-empty); and
\* coaching is started only while the gate is open.
C27_FinalOpensGate ==
  [][/\ (last'.op = "markAsFinalAssessment" /\ store'.userPersonalitySessionId # Null)
         => hasAssessment(store')
     /\ last'.op = "onStartCoach" => hasAssessment(store)]_vars

---------------------------------------------------------------------------
(* Messages after the view has closed. *)

\* C28: a listener is in place exactly while its in-session view is
\* shown, and a message that arrives while no such view is shown, so
\* after submit, terminated, Cancel or End has closed it, invokes no
\* handler and leaves every field of the store and its durable record as
\* they were.
C28_ClosedViewHearsNothing ==
  [][/\ \A r \in {"test", "assessment", "coach"} :
          Includes(ui'.listeners, r) <=> Shown(ui', r)
     /\ \A m \in PageMessages :
          (Deliver(m) /\ ~ui.showTest /\ ~ui.showAssessment /\ ~ui.showCoach)
            => /\ calls' = <<>>
               /\ store' = store
               /\ localStorage' = localStorage]_vars

\* A session started on the test page and closed by submit is still
\* active in the store after a later message found no listener.
C28_Witness ==
  /\ last.op = "message"
  /\ calls = <<>>
  /\ ui.testCompleted /\ ~ui.showTest /\ ui.listeners = <<>>
  /\ store.assessmentSessions = <<"s1">>
  /\ Get(store.sessionDetails["s1"], "status") = "active"
  /\ "completed_at" \notin DOMAIN store.sessionDetails["s1"]

---------------------------------------------------------------------------
(* Fetches in flight. *)

\* C29: on the results page isFetching is true whenever a request of
\* fetchSession is in flight, whether the Fetch button or an analysis sent
\* it, and a response changes the detail of the session it was requested
\* for and nothing else of the store.
C29_FetchingTracksRequests ==
  [][/\ (\E i \in 1..Len(ui'.requests) : ui'.requests[i].kind = "GET")
          => ui'.isFetching
     /\ last'.op = "fetchResponse" =>
          /\ DOMAIN store'.sessionDetails \subseteq
               DOMAIN store.sessionDetails \cup {last'.arg}
          /\ \A id \in DOMAIN store.sessionDetails \ {last'.arg} :
               /\ id \in DOMAIN store'.sessionDetails
               /\ store'.sessionDetails[id] = store.sessionDetails[id]
          /\ [store' EXCEPT !.sessionDetails = << >>] =
               [store EXCEPT !.sessionDetails = << >>]]_vars

---------------------------------------------------------------------------
(* The signed-in user. *)

\* C30: whenever the auth context holds a current user, the store's user
\* field holds that user.
C30_SignedInUserRecorded ==
  ui.currentUser # Null => store.user = ui.currentUser

====
